---- MODULE Spec2Model ----
(***************************************************************************)
(* The execution core of the MIR interpreter: the call stack of            *)
(* EvalContext (push_stack_frame, pop_stack_frame), the driver eval_main   *)
(* with its diagnostic (report), the assignment of aggregates              *)
(* (eval_rvalue_into_lvalue, assign_fields), the intrinsic dispatcher      *)
(* (call_intrinsic) and the places (Lvalue).                               *)
(*                                                                         *)
(* The memory (memory.rs), the stepper (step.rs) and the terminators       *)
(* (terminator/mod.rs) are modelled from the specification: an allocation  *)
(* table with byte contents, definedness and a frozen flag per allocation, *)
(* and a stepper that executes one statement or one terminator of an       *)
(* arbitrary program per call.                                             *)
(***************************************************************************)
EXTENDS Integers, Sequences, FiniteSets, TLC

VARIABLES
    stack,        \* EvalContext::stack, the root frame first
    memory,       \* EvalContext::memory: the allocations and the bytes used
    statics,      \* EvalContext::statics: constant id -> pointer
    stack_limit,  \* EvalContext::stack_limit
    step_limit,   \* eval_main's step_limit
    pc,           \* where eval_main is
    steps,        \* the calls of step that eval_main has made
    diags,        \* the diagnostics that report has emitted
    last,         \* the operation the last step ran, and what it returned
    entry_depth,  \* history: per frame, the stack depth before it was pushed
    lv,           \* the place under examination (places only)
    lvres         \* what the last operation on lv returned (places only)

vars == <<stack, memory, statics, stack_limit, step_limit, pc, steps, diags,
          last, entry_depth, lv, lvres>>

driver_vars == <<stack, memory, statics, stack_limit, step_limit, pc, steps,
                 diags, last, entry_depth>>

lvalue_vars == <<lv, lvres>>

----------------------------------------------------------------------------
\* Bounds of the model.

\* The largest stack_limit a run is configured with.
MaxStackLimit == 3

\* The largest step_limit a run is configured with.
MaxStepLimit == 4

\* The bytes the memory may hold (memory_size).
MemorySize == 8

\* The blocks a call may name as its return target are 0..MaxBlock.
MaxBlock == 1

\* The byte offsets and the metadata values of the places examined.
MaxOffset == 3

----------------------------------------------------------------------------
\* Program constants.

\* mir::START_BLOCK.
START_BLOCK == 0

\* Memory::pointer_size() of the target: two bytes.
PointerSize == 2

----------------------------------------------------------------------------
\* Values, pointers and places.

NoPtr == [alloc_id |-> 0, offset |-> 0]

Pointer(a, o) == [alloc_id |-> a, offset |-> o]

\* usize has the width of a pointer: values are taken modulo 2^(8 * PointerSize).
UsizeModulus == 2 ^ (8 * PointerSize)

\* Pointer::offset: the address i bytes after p (before it when i < 0), the
\* offset computed in usize.
offset(p, i) == Pointer(p.alloc_id, (p.offset + i) % UsizeModulus)

\* LvalueExtra.
ExtraNone == [tag |-> "None"]

ExtraLength(n) == [tag |-> "Length", len |-> n]

ExtraVtable(p) == [tag |-> "Vtable", vtable |-> p]

ExtraDowncastVariant(v) == [tag |-> "DowncastVariant", variant |-> v]

\* Lvalue.
Lvalue(p, e) == [ptr |-> p, extra |-> e]

\* Lvalue::from_ptr.
from_ptr(p) == Lvalue(p, ExtraNone)

\* A to_ptr without its assertion.
to_ptr_unchecked(l) == [res |-> "Ok", ptr |-> l.ptr]

\* Lvalue::to_ptr: assert_eq!(self.extra, LvalueExtra::None); self.ptr.
to_ptr(l) ==
    IF l.extra = ExtraNone
    THEN [res |-> "Ok", ptr |-> l.ptr]
    ELSE [res |-> "panic", ptr |-> NoPtr]

\* StackPopCleanup.
CleanupFreeze(a) == [tag |-> "Freeze", alloc_id |-> a]

CleanupGoto(b) == [tag |-> "Goto", target |-> b]

CleanupNone == [tag |-> "None"]

----------------------------------------------------------------------------
\* The memory: allocation a is memory.allocs[a].

Undef == [k |-> "undef"]

Byte(n) == [k |-> "byte", v |-> n]

\* Byte i of a stored pointer: the relocation and the offset bytes under it.
PtrByte(p, i) == [k |-> "ptr", p |-> p, i |-> i]

EmptyMemory == [allocs |-> <<>>, usage |-> 0]

\* Memory::allocate: a new allocation of undefined bytes with the alignment
\* align, or an error when the budget is exceeded.
Allocate(mem, size, align) ==
    IF mem.usage + size > MemorySize
    THEN [res |-> "OutOfMemory", mem |-> mem, ptr |-> NoPtr]
    ELSE [res |-> "Ok",
          mem |-> [allocs |-> Append(mem.allocs,
                                     [bytes  |-> [i \in 1..size |-> Undef],
                                      frozen |-> FALSE,
                                      live   |-> TRUE,
                                      align  |-> align]),
                   usage  |-> mem.usage + size],
          ptr |-> Pointer(Len(mem.allocs) + 1, 0)]

IsLive(mem, a) == a \in 1..Len(mem.allocs) /\ mem.allocs[a].live

\* Memory::freeze: the allocation becomes immutable; freezing a frozen
\* allocation changes nothing.
Freeze(mem, a) ==
    IF IsLive(mem, a)
    THEN [res |-> "Ok", mem |-> [mem EXCEPT !.allocs[a].frozen = TRUE]]
    ELSE [res |-> "DanglingPointerDeref", mem |-> mem]

\* Memory::deallocate. The interpreter core never calls it.
Deallocate(mem, a) ==
    IF IsLive(mem, a)
    THEN [mem EXCEPT !.allocs[a].live = FALSE,
                     !.usage = mem.usage - Len(mem.allocs[a].bytes)]
    ELSE mem

\* Whether n bytes at p lie within a live allocation.
InBounds(mem, p, n) ==
    /\ IsLive(mem, p.alloc_id)
    /\ p.offset >= 0
    /\ p.offset + n <= Len(mem.allocs[p.alloc_id].bytes)

\* A write of the bytes bs at p: rejected through a frozen allocation and
\* out of bounds.
WriteBytes(mem, p, bs) ==
    IF ~IsLive(mem, p.alloc_id) THEN [res |-> "DanglingPointerDeref", mem |-> mem]
    ELSE IF ~InBounds(mem, p, Len(bs)) THEN [res |-> "PointerOutOfBounds", mem |-> mem]
    ELSE IF Len(bs) > 0 /\ mem.allocs[p.alloc_id].frozen
         THEN [res |-> "ModifiedConstantMemory", mem |-> mem]
    ELSE [res |-> "Ok",
          mem |-> [mem EXCEPT !.allocs[p.alloc_id].bytes =
                      [i \in 1..Len(@) |->
                          IF i - 1 >= p.offset /\ i - 1 < p.offset + Len(bs)
                          THEN bs[i - p.offset] ELSE @[i]]]]

\* The n bytes at p, undefined ones included.
BytesAt(mem, p, n) ==
    [i \in 1..n |-> mem.allocs[p.alloc_id].bytes[p.offset + i]]

----------------------------------------------------------------------------
\* Types and bodies of the programs that are run.

\* The types of values: ty.sty.
TyBool == [sty |-> "Bool"]

TyChar == [sty |-> "Char"]

\* TyFloat(F32), TyFloat(F64) by its size in bytes.
TyFloat(size) == [sty |-> "Float", size |-> size]

\* TyInt(I8..I64) by its size in bytes.
TyInt(size) == [sty |-> "Int", ptr_sized |-> FALSE, size |-> size]

\* TyInt(Is).
TyIsize == [sty |-> "Int", ptr_sized |-> TRUE, size |-> 0]

\* TyUint(U8..U64) by its size in bytes.
TyUint(size) == [sty |-> "Uint", ptr_sized |-> FALSE, size |-> size]

\* TyUint(Us).
TyUsize == [sty |-> "Uint", ptr_sized |-> TRUE, size |-> 0]

\* TyRef, TyRawPtr and TyBox, by the pointee: a sized type, or with the
\* struct tail "slice", "str" or "trait".
TyRef(pointee) == [sty |-> "Ref", pointee |-> pointee]

\* TyAdt, with the layout the oracle reports for it.
TyAdt(layout) == [sty |-> "Adt", layout |-> layout]

\* EvalContext::type_is_sized, of a pointee.
type_is_sized(pointee) == pointee \notin {"slice", "str", "trait"}

FatPointer == [kind |-> "FatPointer"]

Scalar == [kind |-> "Scalar"]

\* EvalContext::type_layout.
type_layout(ty) ==
    IF ty.sty = "Adt" THEN ty.layout
    ELSE IF ty.sty = "Ref" /\ ~type_is_sized(ty.pointee) THEN FatPointer
    ELSE Scalar

\* The layout of a record, with the byte offset of each field.
Univariant(offsets) == [kind |-> "Univariant", offsets |-> offsets]

\* The layout of a tagged union: the size in bytes of the discriminant and
\* the field offsets of each variant, the discriminant being field 0 of each.
General(discr, variants) == [kind |-> "General", discr |-> discr, variants |-> variants]

\* The layout of a pure-discriminant enum: the size in bytes of its
\* discriminant and whether it is signed.
CEnum(discr, signed) == [kind |-> "CEnum", discr |-> discr, signed |-> signed]

\* The size read for an integer type: Is and Us have the size of a pointer.
int_ty_size(ty) == IF ty.ptr_sized THEN PointerSize ELSE ty.size

\* TyAdt with its definition: the layout and the size the oracle reports,
\* and the field types of each variant.
TyAdtDef(layout, size, variants) ==
    [sty |-> "Adt", layout |-> layout, size |-> size, variants |-> variants]

\* The unit type.
TyUnit == [sty |-> "Tuple"]

\* EvalContext::type_size: the size in bytes the layout oracle reports.
type_size(ty) ==
    CASE ty.sty = "Bool" -> 1
      [] ty.sty = "Char" -> 4
      [] ty.sty \in {"Int", "Uint"} -> int_ty_size(ty)
      [] ty.sty = "Float" -> ty.size
      [] ty.sty = "Ref" -> IF type_is_sized(ty.pointee) THEN PointerSize ELSE 2 * PointerSize
      [] ty.sty = "Adt" -> IF ty.layout.kind = "CEnum" THEN ty.layout.discr ELSE ty.size
      [] OTHER -> 0

\* EvalContext::type_align: the alignment the layout oracle reports, which
\* is the size of an integer, of a char and of a pointer, and 1 for the
\* records examined, whose fields are bytes or are placed as if they were.
type_align(ty) ==
    CASE ty.sty = "Char" -> 4
      [] ty.sty \in {"Int", "Uint"} -> int_ty_size(ty)
      [] ty.sty = "Float" -> ty.size
      [] ty.sty = "Ref" -> PointerSize
      [] OTHER -> 1

\* The types of the locals of the programs that are run: u8, (u8, u8) and &u8.
TyU8 == TyUint(1)

TyPair == TyAdtDef(Univariant(<<0, 1>>), 2, <<<<TyUint(1), TyUint(1)>>>>)

TyPtr == TyRef("u8")

\* mir.local_decls of each body: the return slot first.
local_decls(def_id) ==
    CASE def_id = "main"    -> <<TyUnit, TyU8, TyPair, TyPtr>>
      [] def_id = "f"       -> <<TyU8, TyU8, TyPair>>
      [] def_id = "closure" -> <<TyU8>>
      [] def_id = "K"       -> <<TyU8, TyU8>>

\* The functions a call terminator may name.
Callees == {"f", "closure"}

\* The constants whose initial value a frame computes.
Constants == {"K"}

----------------------------------------------------------------------------
\* Frames.

Frame(def_id, block, return_to_block, locals, stmt) ==
    [def_id          |-> def_id,
     block           |-> block,
     return_to_block |-> return_to_block,
     locals          |-> locals,
     stmt            |-> stmt]

\* The collect() of push_stack_frame: one allocation per local type of tys,
\* in order, stopping at the first that fails; the allocations made before a
\* failure stay.
RECURSIVE AllocLocals(_, _, _)
AllocLocals(mem, tys, acc) ==
    IF tys = <<>> THEN [res |-> "Ok", mem |-> mem, locals |-> acc]
    ELSE LET a == Allocate(mem, type_size(Head(tys)), type_align(Head(tys)))
         IN  IF a.res # "Ok"
             THEN [res |-> a.res, mem |-> a.mem, locals |-> acc]
             ELSE AllocLocals(a.mem, Tail(tys), Append(acc, a.ptr))

\* A push_stack_frame whose limit check is off by one.
push_stack_frame_ge(stk, mem, limit, def_id, return_lvalue, return_to_block) ==
    LET rp == to_ptr(return_lvalue)
        al == AllocLocals(mem, Tail(local_decls(def_id)), <<rp.ptr>>)
        pushed == Append(stk, Frame(def_id, START_BLOCK, return_to_block,
                                    al.locals, 0))
    IN  IF rp.res # "Ok" THEN [res |-> "panic", stack |-> stk, mem |-> mem]
        ELSE IF al.res # "Ok" THEN [res |-> al.res, stack |-> stk, mem |-> al.mem]
        ELSE IF Len(pushed) >= limit
             THEN [res |-> "StackFrameLimitReached", stack |-> pushed, mem |-> al.mem]
             ELSE [res |-> "Ok", stack |-> pushed, mem |-> al.mem]

\* A push_stack_frame that does not keep the frame it rejects.
push_stack_frame_nopush(stk, mem, limit, def_id, return_lvalue, return_to_block) ==
    LET rp == to_ptr(return_lvalue)
        al == AllocLocals(mem, Tail(local_decls(def_id)), <<rp.ptr>>)
        pushed == Append(stk, Frame(def_id, START_BLOCK, return_to_block,
                                    al.locals, 0))
    IN  IF rp.res # "Ok" THEN [res |-> "panic", stack |-> stk, mem |-> mem]
        ELSE IF al.res # "Ok" THEN [res |-> al.res, stack |-> stk, mem |-> al.mem]
        ELSE IF Len(pushed) > limit
             THEN [res |-> "StackFrameLimitReached", stack |-> stk, mem |-> al.mem]
             ELSE [res |-> "Ok", stack |-> pushed, mem |-> al.mem]

\* A push_stack_frame that pushes the frame before its locals are known to
\* be allocated.
push_stack_frame_early(stk, mem, limit, def_id, return_lvalue, return_to_block) ==
    LET rp == to_ptr(return_lvalue)
        al == AllocLocals(mem, Tail(local_decls(def_id)), <<rp.ptr>>)
        pushed == Append(stk, Frame(def_id, START_BLOCK, return_to_block,
                                    al.locals, 0))
    IN  IF rp.res # "Ok" THEN [res |-> "panic", stack |-> stk, mem |-> mem]
        ELSE IF al.res # "Ok" THEN [res |-> al.res, stack |-> pushed, mem |-> al.mem]
        ELSE IF Len(pushed) > limit
             THEN [res |-> "StackFrameLimitReached", stack |-> pushed, mem |-> al.mem]
             ELSE [res |-> "Ok", stack |-> pushed, mem |-> al.mem]

\* A push_stack_frame that allocates the return slot too.
push_stack_frame_fresh(stk, mem, limit, def_id, return_lvalue, return_to_block) ==
    LET rp == to_ptr(return_lvalue)
        al == AllocLocals(mem, local_decls(def_id), <<>>)
        pushed == Append(stk, Frame(def_id, START_BLOCK, return_to_block,
                                    al.locals, 0))
    IN  IF rp.res # "Ok" THEN [res |-> "panic", stack |-> stk, mem |-> mem]
        ELSE IF al.res # "Ok" THEN [res |-> al.res, stack |-> stk, mem |-> al.mem]
        ELSE IF Len(pushed) > limit
             THEN [res |-> "StackFrameLimitReached", stack |-> pushed, mem |-> al.mem]
             ELSE [res |-> "Ok", stack |-> pushed, mem |-> al.mem]

\* EvalContext::push_stack_frame.
push_stack_frame(stk, mem, limit, def_id, return_lvalue, return_to_block) ==
    LET rp == to_ptr(return_lvalue)
        al == AllocLocals(mem, Tail(local_decls(def_id)), <<rp.ptr>>)
        pushed == Append(stk, Frame(def_id, START_BLOCK, return_to_block,
                                    al.locals, 0))
    IN  IF rp.res # "Ok" THEN [res |-> "panic", stack |-> stk, mem |-> mem]
        ELSE IF al.res # "Ok" THEN [res |-> al.res, stack |-> stk, mem |-> al.mem]
        ELSE IF Len(pushed) > limit
             THEN [res |-> "StackFrameLimitReached", stack |-> pushed, mem |-> al.mem]
             ELSE [res |-> "Ok", stack |-> pushed, mem |-> al.mem]

\* goto_block of the terminators: the top frame is at the start of target.
goto_block(stk, target) ==
    [stk EXCEPT ![Len(stk)].block = target, ![Len(stk)].stmt = 0]

Front(s) == SubSeq(s, 1, Len(s) - 1)

\* A pop_stack_frame that frees the locals it allocated.
RECURSIVE DeallocateAll(_, _)
DeallocateAll(mem, ptrs) ==
    IF ptrs = <<>> THEN mem
    ELSE DeallocateAll(Deallocate(mem, Head(ptrs).alloc_id), Tail(ptrs))

pop_stack_frame_dealloc(stk, mem) ==
    LET frame == stk[Len(stk)]
        rest  == Front(stk)
        freed == DeallocateAll(mem, frame.locals)
    IN  CASE frame.return_to_block.tag = "Freeze" ->
               LET fr == Freeze(freed, frame.return_to_block.alloc_id)
               IN  [res |-> fr.res, stack |-> rest, mem |-> fr.mem]
          [] frame.return_to_block.tag = "Goto" ->
               [res |-> "Ok", stack |-> goto_block(rest, frame.return_to_block.target),
                mem |-> freed]
          [] frame.return_to_block.tag = "None" ->
               [res |-> "Ok", stack |-> rest, mem |-> freed]

\* A pop_stack_frame that forgets the return policy.
pop_stack_frame_nopolicy(stk, mem) ==
    [res |-> "Ok", stack |-> Front(stk), mem |-> mem]

\* A pop_stack_frame that removes the caller's frame as well.
pop_stack_frame_two(stk, mem) ==
    [res |-> "Ok", stack |-> SubSeq(stk, 1, Len(stk) - 2), mem |-> mem]

\* EvalContext::pop_stack_frame.
pop_stack_frame(stk, mem) ==
    LET frame == stk[Len(stk)]
        rest  == Front(stk)
    IN  CASE frame.return_to_block.tag = "Freeze" ->
               LET fr == Freeze(mem, frame.return_to_block.alloc_id)
               IN  [res |-> fr.res, stack |-> rest, mem |-> fr.mem]
          [] frame.return_to_block.tag = "Goto" ->
               [res |-> "Ok", stack |-> goto_block(rest, frame.return_to_block.target),
                mem |-> mem]
          [] frame.return_to_block.tag = "None" ->
               [res |-> "Ok", stack |-> rest, mem |-> mem]

----------------------------------------------------------------------------
\* Primitive values and their bytes.

\* PrimVal.
\* An integer of size bytes, signed or not: its bytes, the least significant
\* first (I8..I64, U8..U64).
PrimInt(signed, size, bytes) ==
    [kind |-> "Int", signed |-> signed, size |-> size, bytes |-> bytes]

PrimU8(n) == PrimInt(FALSE, 1, <<n>>)

PrimBool(b) == [kind |-> "Bool", b |-> b]

\* A char: the four bytes of its scalar value, the least significant first.
PrimChar(bytes) == [kind |-> "Char", bytes |-> bytes]

PrimPtr(p) == [kind |-> "Ptr", p |-> p]

\* F32 and F64, for the floats whose value v is an integer.
PrimFloat(size, v) == [kind |-> "Float", size |-> size, v |-> v]

\* The integers that floats are examined at.
FloatRange == -18..18

\* The exponent of the float n >= 1: the largest e with 2^e <= n.
RECURSIVE FloatExponent(_)
FloatExponent(n) == IF n < 2 THEN 0 ELSE 1 + FloatExponent(n \div 2)

\* The bytes of the IEEE 754 encoding of the float of size bytes whose value
\* is the integer v, the least significant first: a sign bit, an exponent
\* of 8 bits biased by 127 or of 11 bits biased by 1023, and the fraction,
\* of which an integer of this range sets the 20 highest bits at most.
FloatBytes(size, v) ==
    LET n    == IF v < 0 THEN 0 - v ELSE v
        sign == IF v < 0 THEN 1 ELSE 0
        e    == FloatExponent(n)
        E32  == IF n = 0 THEN 0 ELSE e + 127
        E64  == IF n = 0 THEN 0 ELSE e + 1023
        m20  == IF n = 0 THEN 0 ELSE (n - 2 ^ e) * 2 ^ (20 - e)
    IN  IF size = 4
        THEN <<(m20 * 8) % 256, ((m20 * 8) \div 256) % 256,
               (E32 % 2) * 128 + (m20 \div 2 ^ 13),
               sign * 128 + (E32 \div 2)>>
        ELSE <<0, 0, 0, 0, m20 % 256, (m20 \div 256) % 256,
               (E64 % 16) * 16 + (m20 \div 2 ^ 16),
               sign * 128 + (E64 \div 16)>>

NoPrim == [kind |-> "none"]

\* Value.
ByRef(p) == [tag |-> "ByRef", ptr |-> p]

ByVal(v) == [tag |-> "ByVal", val |-> v]

NoValue == [tag |-> "none"]

\* Memory::write_ptr: the PointerSize bytes of a pointer.
write_ptr(mem, dest, p) ==
    WriteBytes(mem, dest, [i \in 1..PointerSize |-> PtrByte(p, i - 1)])

\* Memory::write_primval.
write_primval_to(mem, dest, val) ==
    CASE val.kind = "Int"  ->
            WriteBytes(mem, dest, [i \in 1..val.size |-> Byte(val.bytes[i])])
      [] val.kind = "Bool" -> WriteBytes(mem, dest, <<Byte(IF val.b THEN 1 ELSE 0)>>)
      [] val.kind = "Char" -> WriteBytes(mem, dest, [i \in 1..4 |-> Byte(val.bytes[i])])
      [] val.kind = "Ptr"  -> write_ptr(mem, dest, val.p)
      [] val.kind = "Float" ->
            WriteBytes(mem, dest,
                       [i \in 1..val.size |-> Byte(FloatBytes(val.size, val.v)[i])])

\* Memory::check_align: p is in an allocation of alignment align or more, at
\* an offset that is a multiple of align.
check_align(mem, p, align) ==
    IF ~IsLive(mem, p.alloc_id) THEN "DanglingPointerDeref"
    ELSE IF mem.allocs[p.alloc_id].align < align \/ p.offset % align # 0
         THEN "AlignmentCheckFailed"
         ELSE "Ok"

\* Memory::copy: size bytes from src to dest, undefined bytes included, both
\* addresses having the alignment align.
Copy(mem, src, dest, size, align) ==
    IF check_align(mem, src, align) # "Ok"
    THEN [res |-> check_align(mem, src, align), mem |-> mem]
    ELSE IF check_align(mem, dest, align) # "Ok"
    THEN [res |-> check_align(mem, dest, align), mem |-> mem]
    ELSE IF ~InBounds(mem, src, size) THEN [res |-> "PointerOutOfBounds", mem |-> mem]
    ELSE WriteBytes(mem, dest, BytesAt(mem, src, size))

\* EvalContext::copy: a value of type ty, with its size and alignment.
copy(mem, src, dest, ty) == Copy(mem, src, dest, type_size(ty), type_align(ty))

\* Memory::read_ptr: the pointer stored at p.
read_ptr(mem, p) ==
    IF ~IsLive(mem, p.alloc_id) THEN [res |-> "DanglingPointerDeref", ptr |-> NoPtr]
    ELSE IF ~InBounds(mem, p, PointerSize) THEN [res |-> "PointerOutOfBounds", ptr |-> NoPtr]
    ELSE LET bs == BytesAt(mem, p, PointerSize)
         IN  IF \E i \in 1..PointerSize : bs[i] = Undef
             THEN [res |-> "ReadUndefBytes", ptr |-> NoPtr]
             ELSE IF bs[1].k = "ptr" /\ \A i \in 1..PointerSize : bs[i] = PtrByte(bs[1].p, i - 1)
                  THEN [res |-> "Ok", ptr |-> bs[1].p]
                  ELSE [res |-> "ReadBytesAsPointer", ptr |-> NoPtr]

----------------------------------------------------------------------------
\* Places and operands of the program, and their evaluation.

\* mir::Lvalue.
Local(i) == [kind |-> "Local", index |-> i]

Deref(base) == [kind |-> "Deref", base |-> base]

\* mir::Operand.
Consume(lvalue) == [kind |-> "Consume", lvalue |-> lvalue]

Constant(n) == [kind |-> "Constant", value |-> n]

\* An operand of type ty that evaluates to value without reading the stack:
\* a literal, or a place whose address is already known.
Literal(value, ty) == [kind |-> "Literal", value |-> value, ty |-> ty]

\* mir::Rvalue.
Aggregate(operands) == [kind |-> "Aggregate", operands |-> operands]

Ref(lvalue) == [kind |-> "Ref", lvalue |-> lvalue]

\* EvalContext::frame.
frame(stk) == stk[Len(stk)]

\* EvalContext::lvalue_ty: the type of a place of the top frame.
lvalue_ty(stk, lvalue) ==
    IF lvalue.kind = "Local"
    THEN local_decls(frame(stk).def_id)[lvalue.index + 1]
    ELSE TyU8

\* EvalContext::operand_ty.
operand_ty(stk, op) ==
    IF op.kind = "Consume" THEN lvalue_ty(stk, op.lvalue)
    ELSE IF op.kind = "Literal" THEN op.ty
    ELSE TyU8

\* EvalContext::eval_lvalue, for a local and for the dereference of a local
\* that holds a thin pointer.
eval_lvalue(stk, mem, lvalue) ==
    IF lvalue.kind = "Local"
    THEN [res |-> "Ok", lvalue |-> from_ptr(frame(stk).locals[lvalue.index + 1])]
    ELSE LET base == from_ptr(frame(stk).locals[lvalue.base.index + 1])
             rd   == read_ptr(mem, base.ptr)
         IN  IF rd.res # "Ok"
             THEN [res |-> rd.res, lvalue |-> from_ptr(NoPtr)]
             ELSE [res |-> "Ok", lvalue |-> Lvalue(rd.ptr, ExtraNone)]

\* EvalContext::eval_operand.
eval_operand(stk, mem, op) ==
    IF op.kind = "Consume"
    THEN LET l == eval_lvalue(stk, mem, op.lvalue)
         IN  IF l.res # "Ok" THEN [res |-> l.res, value |-> NoValue]
             ELSE LET p == to_ptr(l.lvalue)
                  IN  IF p.res # "Ok" THEN [res |-> "panic", value |-> NoValue]
                      ELSE [res |-> "Ok", value |-> ByRef(p.ptr)]
    ELSE IF op.kind = "Literal" THEN [res |-> "Ok", value |-> op.value]
    ELSE [res |-> "Ok", value |-> ByVal(PrimU8(op.value))]

ByValPair(a, b) == [tag |-> "ByValPair", a |-> a, b |-> b]

\* A write that puts the second word of a pair over the first.
write_value_to_ptr_pair0(mem, value, dest, dest_ty) ==
    IF value.tag = "ByRef"
    THEN copy(mem, value.ptr, dest, dest_ty)
    ELSE IF value.tag = "ByVal"
    THEN write_primval_to(mem, dest, value.val)
    ELSE LET w == write_primval_to(mem, dest, value.a)
         IN  IF w.res # "Ok" THEN w
             ELSE IF type_layout(dest_ty).kind # "FatPointer"
                  THEN [res |-> "panic", mem |-> w.mem]
                  ELSE write_primval_to(w.mem, dest, value.b)

\* EvalContext::write_value_to_ptr.
write_value_to_ptr(mem, value, dest, dest_ty) ==
    IF value.tag = "ByRef"
    THEN copy(mem, value.ptr, dest, dest_ty)
    ELSE IF value.tag = "ByVal"
    THEN write_primval_to(mem, dest, value.val)
    ELSE LET w == write_primval_to(mem, dest, value.a)
         IN  IF w.res # "Ok" THEN w
             ELSE IF type_layout(dest_ty).kind # "FatPointer"
                  THEN [res |-> "panic", mem |-> w.mem]
                  ELSE write_primval_to(w.mem, offset(dest, PointerSize), value.b)

\* The loop of assign_fields over zip(offsets, operands).
RECURSIVE AssignLoop(_, _, _, _, _)
AssignLoop(stk, mem, dest, offsets, operands) ==
    IF offsets = <<>> \/ operands = <<>> THEN [res |-> "Ok", mem |-> mem]
    ELSE LET v == eval_operand(stk, mem, Head(operands))
         IN  IF v.res # "Ok" THEN [res |-> v.res, mem |-> mem]
             ELSE LET w == write_value_to_ptr(mem, v.value,
                               Pointer(dest.alloc_id, dest.offset + Head(offsets)),
                               operand_ty(stk, Head(operands)))
                  IN  IF w.res # "Ok" THEN [res |-> w.res, mem |-> w.mem]
                      ELSE AssignLoop(stk, w.mem, dest, Tail(offsets), Tail(operands))

\* EvalContext::assign_fields.
assign_fields(stk, mem, dest, offsets, operands) ==
    LET d == to_ptr(dest)
    IN  IF d.res # "Ok" THEN [res |-> "panic", mem |-> mem]
        ELSE AssignLoop(stk, mem, d.ptr, offsets, operands)

\* The field offsets of a Univariant layout.
variant_offsets(ty) ==
    IF type_layout(ty).kind = "Univariant" THEN type_layout(ty).offsets ELSE <<>>

\* Memory::write_uint: the low size bytes of the u64 n.
write_uint(mem, p, n, size) == WriteBytes(mem, p, [i \in 1..size |-> Byte(n[i])])

\* length as u64, for a length below 2^16: its 8 bytes.
AsU64(n) ==
    [i \in 1..8 |-> IF i = 1 THEN n % 256 ELSE IF i = 2 THEN (n \div 256) % 256 ELSE 0]

\* Memory::write_usize.
write_usize(mem, p, n) == write_uint(mem, p, n, PointerSize)

\* A reference that writes the address only.
eval_rvalue_Ref_thin(mem, dest, lvalue) ==
    LET d == to_ptr(dest)
    IN  IF d.res # "Ok" THEN [res |-> "panic", mem |-> mem]
        ELSE IF lvalue.extra.tag = "DowncastVariant" THEN [res |-> "panic", mem |-> mem]
        ELSE write_ptr(mem, d.ptr, lvalue.ptr)

\* The arm Ref of eval_rvalue_into_lvalue, from the place that the referent
\* was evaluated to.
eval_rvalue_Ref(mem, dest, lvalue) ==
    LET d == to_ptr(dest)
        w == write_ptr(mem, d.ptr, lvalue.ptr)
        extra_ptr == offset(d.ptr, PointerSize)
    IN  IF d.res # "Ok" THEN [res |-> "panic", mem |-> mem]
        ELSE IF w.res # "Ok" THEN w
        ELSE CASE lvalue.extra.tag = "None" -> w
               [] lvalue.extra.tag = "Length" ->
                     write_usize(w.mem, extra_ptr, AsU64(lvalue.extra.len))
               [] lvalue.extra.tag = "Vtable" ->
                     write_ptr(w.mem, extra_ptr, lvalue.extra.vtable)
               [] lvalue.extra.tag = "DowncastVariant" ->
                     [res |-> "panic", mem |-> w.mem]

\* EvalContext::eval_rvalue_into_lvalue, for an aggregate of a Univariant
\* layout and for a reference to a place.
eval_rvalue_into_lvalue(stk, mem, rvalue, lvalue) ==
    LET d == eval_lvalue(stk, mem, lvalue)
        dest_ty == lvalue_ty(stk, lvalue)
    IN  IF d.res # "Ok" THEN [res |-> d.res, mem |-> mem]
        ELSE IF rvalue.kind = "Aggregate"
        THEN assign_fields(stk, mem, d.lvalue, variant_offsets(dest_ty), rvalue.operands)
        ELSE LET dp == to_ptr(d.lvalue)
                 l  == eval_lvalue(stk, mem, rvalue.lvalue)
             IN  IF dp.res # "Ok" THEN [res |-> "panic", mem |-> mem]
                 ELSE IF l.res # "Ok" THEN [res |-> l.res, mem |-> mem]
                 ELSE eval_rvalue_Ref(mem, d.lvalue, l.lvalue)

\* The collect() of call_intrinsic over its arguments: the first error ends it.
RECURSIVE EvalArgs(_, _, _)
EvalArgs(stk, mem, args) ==
    IF args = <<>> THEN "Ok"
    ELSE LET v == eval_operand(stk, mem, Head(args))
         IN  IF v.res # "Ok" THEN v.res ELSE EvalArgs(stk, mem, Tail(args))

\* The names call_intrinsic matches that have no effect.
NoOpIntrinsics == {"likely", "unlikely", "forget"}

\* EvalContext::call_intrinsic, for the intrinsics without effect and for a
\* name that is not in the table.
call_intrinsic(stk, mem, name, args) ==
    LET a == EvalArgs(stk, mem, args)
    IN  IF a # "Ok" THEN [res |-> a, mem |-> mem]
        ELSE IF name \in NoOpIntrinsics THEN [res |-> "Ok", mem |-> mem]
        ELSE [res |-> "Unimplemented", mem |-> mem]

----------------------------------------------------------------------------
\* The driver: eval_main, report, and one call of step per action.

\* The idle values of the variables a specification does not use.
NoOp == [op |-> "none", res |-> "Ok"]

NoLvalue == from_ptr(NoPtr)

NoLvRes == [op |-> "none"]

\* The note of report for one frame.
NoteOf(f) ==
    IF f.def_id = "closure" THEN "inside call to closure" ELSE f.def_id

\* A report that walks the stack from the root to the innermost frame.
report_forward(stk, e) ==
    IF stk = <<>> THEN [res |-> "panic", diag |-> <<>>]
    ELSE [res  |-> "Ok",
          diag |-> [err   |-> e,
                    span  |-> [def_id |-> frame(stk).def_id,
                               block  |-> frame(stk).block,
                               stmt   |-> frame(stk).stmt],
                    notes |-> [i \in 1..Len(stk) |-> NoteOf(stk[i])]]]

\* report: the diagnostic for error e, with one note per frame from the
\* innermost to the root; it panics on an empty stack.
report(stk, e) ==
    IF stk = <<>> THEN [res |-> "panic", diag |-> <<>>]
    ELSE [res  |-> "Ok",
          diag |-> [err   |-> e,
                    span  |-> [def_id |-> frame(stk).def_id,
                               block  |-> frame(stk).block,
                               stmt   |-> frame(stk).stmt],
                    notes |-> [i \in 1..Len(stk) |-> NoteOf(stk[Len(stk) + 1 - i])]]]

\* The arm of eval_main's match for what a call of step returned.
AfterStep(res, stk, mem) ==
    /\ stack' = stk
    /\ memory' = mem
    /\ steps' = steps + 1
    /\ IF res = "Ok"
       THEN pc' = "loop" /\ diags' = diags
       ELSE IF res = "panic" \/ report(stk, res).res = "panic"
            THEN pc' = "panic" /\ diags' = diags
            ELSE pc' = "reported" /\ diags' = Append(diags, report(stk, res).diag)

InLoop == pc = "loop" /\ steps < step_limit

\* The history of the depths at which the frames were pushed, after a step
\* that leaves the stack stk.
Entered(stk) ==
    IF Len(stk) > Len(stack) THEN Append(entry_depth, Len(stack)) ELSE entry_depth

\* The locals of the top frame that have type ty, counted from 0.
LocalsOfType(stk, ty) ==
    {i \in 0..(Len(local_decls(frame(stk).def_id)) - 1) :
        local_decls(frame(stk).def_id)[i + 1] = ty}

\* The operands of type u8 a statement of the top frame may name.
Operands(stk) ==
    {Constant(7)}
    \cup {Consume(Local(i)) : i \in LocalsOfType(stk, TyU8)}
    \cup {Consume(Deref(Local(i))) : i \in LocalsOfType(stk, TyPtr)}

\* eval_main up to its loop: the return storage and the root frame.
Start ==
    /\ pc = "start"
    /\ LET a == Allocate(EmptyMemory, type_size(local_decls("main")[1]),
                        type_align(local_decls("main")[1]))
           p == push_stack_frame(<<>>, a.mem, stack_limit, "main",
                                 from_ptr(a.ptr), CleanupNone)
       IN  /\ stack' = p.stack
           /\ memory' = p.mem
           /\ pc' = IF a.res = "Ok" /\ p.res = "Ok" THEN "loop" ELSE "panic"
           /\ last' = [op |-> "push", res |-> p.res, def_id |-> "main",
                       return_ptr |-> a.ptr, cleanup |-> CleanupNone]
           /\ entry_depth' = Entered(p.stack)
    /\ UNCHANGED <<statics, stack_limit, step_limit, steps, diags>>
    /\ UNCHANGED lvalue_vars

\* step on an empty stack: evaluation has finished.
StepEmpty ==
    /\ InLoop
    /\ stack = <<>>
    /\ pc' = "returned"
    /\ steps' = steps + 1
    /\ last' = [op |-> "empty", res |-> "Ok"]
    /\ UNCHANGED <<stack, memory, statics, stack_limit, step_limit, diags,
                   entry_depth>>
    /\ UNCHANGED lvalue_vars

\* step at a call terminator: the callee's frame is pushed, to return to
\* block target with its result in local dest of the caller.
StepCall ==
    /\ InLoop
    /\ stack # <<>>
    /\ \E def_id \in Callees, target \in 0..MaxBlock :
       \E dest \in LocalsOfType(stack, local_decls(def_id)[1]) :
          LET l == eval_lvalue(stack, memory, Local(dest))
              p == push_stack_frame(stack, memory, stack_limit, def_id,
                                    l.lvalue, CleanupGoto(target))
          IN  /\ AfterStep(p.res, p.stack, p.mem)
              /\ last' = [op |-> "push", res |-> p.res, def_id |-> def_id,
                          return_ptr |-> l.lvalue.ptr,
                          cleanup |-> CleanupGoto(target)]
              /\ entry_depth' = Entered(p.stack)
    /\ UNCHANGED <<statics, stack_limit, step_limit>>
    /\ UNCHANGED lvalue_vars

\* step at a statement that names a constant not yet computed: its storage
\* is allocated and cached, and a frame that computes it is pushed.
StepConst ==
    /\ InLoop
    /\ stack # <<>>
    /\ \E c \in Constants \ DOMAIN statics :
          LET a == Allocate(memory, type_size(local_decls(c)[1]),
                               type_align(local_decls(c)[1]))
              p == push_stack_frame(stack, a.mem, stack_limit, c,
                                    from_ptr(a.ptr), CleanupFreeze(a.ptr.alloc_id))
          IN  IF a.res # "Ok"
              THEN /\ AfterStep(a.res, stack, memory)
                   /\ statics' = statics
                   /\ last' = [op |-> "alloc", res |-> a.res]
                   /\ entry_depth' = entry_depth
              ELSE /\ AfterStep(p.res, p.stack, p.mem)
                   /\ statics' = [k \in DOMAIN statics \cup {c} |->
                                     IF k = c THEN a.ptr ELSE statics[k]]
                   /\ last' = [op |-> "push", res |-> p.res, def_id |-> c,
                               return_ptr |-> a.ptr,
                               cleanup |-> CleanupFreeze(a.ptr.alloc_id)]
                   /\ entry_depth' = Entered(p.stack)
    /\ UNCHANGED <<stack_limit, step_limit>>
    /\ UNCHANGED lvalue_vars

\* step at a return terminator.
StepReturn ==
    /\ InLoop
    /\ stack # <<>>
    /\ LET p == pop_stack_frame(stack, memory)
       IN  /\ AfterStep(p.res, p.stack, p.mem)
           /\ last' = [op |-> "pop", res |-> p.res, frame |-> frame(stack)]
           /\ entry_depth' = Front(entry_depth)
    /\ UNCHANGED <<statics, stack_limit, step_limit>>
    /\ UNCHANGED lvalue_vars

\* step at an assignment: the statement index advances when it succeeds.
StepAssign ==
    /\ InLoop
    /\ stack # <<>>
    /\ \E rvalue \in {Aggregate(<<a, b>>) : a, b \in Operands(stack)}
                     \cup {Ref(Local(i)) : i \in LocalsOfType(stack, TyU8)} :
       \E dest \in LocalsOfType(stack, IF rvalue.kind = "Ref" THEN TyPtr ELSE TyPair) :
          LET r == eval_rvalue_into_lvalue(stack, memory, rvalue, Local(dest))
          IN  /\ AfterStep(r.res,
                           IF r.res = "Ok"
                           THEN [stack EXCEPT ![Len(stack)].stmt = @ + 1]
                           ELSE stack,
                           r.mem)
              /\ last' = [op |-> "assign", res |-> r.res]
    /\ UNCHANGED <<statics, stack_limit, step_limit, entry_depth>>
    /\ UNCHANGED lvalue_vars

\* step at a call of an intrinsic: no frame is pushed, and the frame goes to
\* block target when the intrinsic succeeds.
StepIntrinsic ==
    /\ InLoop
    /\ stack # <<>>
    /\ \E name \in {"forget", "frobnicate"}, arg \in Operands(stack),
          target \in 0..MaxBlock :
          LET r == call_intrinsic(stack, memory, name, <<arg>>)
          IN  /\ AfterStep(r.res,
                           IF r.res = "Ok" THEN goto_block(stack, target) ELSE stack,
                           r.mem)
              /\ last' = [op |-> "intrinsic", res |-> r.res]
    /\ UNCHANGED <<statics, stack_limit, step_limit, entry_depth>>
    /\ UNCHANGED lvalue_vars

\* The end of eval_main's loop: step_limit steps have asked to continue.
Timeout ==
    /\ pc = "loop"
    /\ steps = step_limit
    /\ LET r == report(stack, "ExecutionTimeLimitReached")
       IN  IF r.res = "panic"
           THEN pc' = "panic" /\ diags' = diags
           ELSE pc' = "reported" /\ diags' = Append(diags, r.diag)
    /\ last' = [op |-> "timeout", res |-> "ExecutionTimeLimitReached"]
    /\ UNCHANGED <<stack, memory, statics, stack_limit, step_limit, steps,
                   entry_depth>>
    /\ UNCHANGED lvalue_vars

Init ==
    /\ stack = <<>>
    /\ memory = EmptyMemory
    /\ statics = <<>>
    /\ stack_limit \in 1..MaxStackLimit
    /\ step_limit \in 0..MaxStepLimit
    /\ pc = "start"
    /\ steps = 0
    /\ diags = <<>>
    /\ last = NoOp
    /\ entry_depth = <<>>
    /\ lv = NoLvalue
    /\ lvres = NoLvRes

Next ==
    \/ Start
    \/ StepEmpty
    \/ StepCall
    \/ StepConst
    \/ StepReturn
    \/ StepAssign
    \/ StepIntrinsic
    \/ Timeout

Spec == Init /\ [][Next]_vars

----------------------------------------------------------------------------
\* The call stack: push_stack_frame and pop_stack_frame.

\* The step that ends in the primed state has pushed a frame.
FramePushed == Len(stack') = Len(stack) + 1

\* The frame on top of the primed stack is the one the last push describes,
\* and the frames under it are those of before.
NewFrameOnTop ==
    /\ FramePushed
    /\ Front(stack') = stack
    /\ frame(stack').def_id = last'.def_id
    /\ frame(stack').return_to_block = last'.cleanup

\* C1: push_stack_frame returns StackFrameLimitReached exactly when the depth
\* after the push exceeds stack_limit, and the new frame is then on the
\* stack all the same; a push that leaves a depth of at most stack_limit
\* returns success.
C1_StackLimitError ==
    [][last'.op = "push" =>
          /\ (last'.res = "StackFrameLimitReached" <=> Len(stack') > stack_limit)
          /\ (last'.res = "StackFrameLimitReached" => NewFrameOnTop)
          /\ (FramePushed /\ Len(stack') <= stack_limit => last'.res = "Ok")]_vars

\* C1: a push has been rejected for the limit, and its frame is on the stack.
C1_Witness ==
    /\ last.op = "push"
    /\ last.res = "StackFrameLimitReached"
    /\ frame(stack).def_id = last.def_id
    /\ Len(stack) > stack_limit

\* C2, as amended: with a limit of N the pushes that create frames 1..N
\* succeed when their locals can be allocated, the push that creates frame
\* N+1 fails, no other push fails for the limit, and after that failure the
\* stack holds N+1 frames.
C2_FailsOnFrameNPlus1 ==
    [][last'.op = "push" =>
          /\ (FramePushed /\ Len(stack) < stack_limit => last'.res = "Ok")
          /\ (FramePushed /\ Len(stack) = stack_limit
                => last'.res = "StackFrameLimitReached")
          /\ (last'.res = "StackFrameLimitReached"
                => Len(stack) = stack_limit /\ Len(stack') = stack_limit + 1)]_vars

\* C2: a chain of nested calls has run into a limit of at least two.
C2_Witness ==
    /\ last.op = "push"
    /\ last.res = "StackFrameLimitReached"
    /\ stack_limit >= 2
    /\ Len(stack) = stack_limit + 1
    /\ \A i \in 2..Len(stack) : stack[i].return_to_block.tag = "Goto"

\* C2, as stated: the same, but after the failure the stack holds exactly N
\* frames.
C2_Original ==
    [][last'.op = "push" =>
          /\ (FramePushed /\ Len(stack) < stack_limit => last'.res = "Ok")
          /\ (last'.res = "StackFrameLimitReached"
                => Len(stack) = stack_limit /\ Len(stack') = stack_limit)]_vars

\* C3: a successful pop leaves the stack at the depth it had before the
\* popped frame was pushed, whatever was pushed and popped in between.
C3_CallReturnDepth ==
    [][last'.op = "pop" /\ last'.res = "Ok"
          => Len(stack') = entry_depth[Len(entry_depth)]]_vars

\* C3: a call made from a called function has returned.
C3_Witness ==
    /\ last.op = "pop"
    /\ last.res = "Ok"
    /\ last.frame.return_to_block.tag = "Goto"
    /\ Len(stack) >= 2

----------------------------------------------------------------------------
\* The driver.

Terminal == pc \in {"returned", "reported", "panic"}

\* The last call of step returned an error.
StepFailed ==
    /\ last.op \in {"push", "alloc", "pop", "assign", "intrinsic"}
    /\ last.res # "Ok"

\* C4, as stated: eval_main pushes one root frame with policy None, calls
\* step at most step_limit times, and ends in one of three ways: without a
\* diagnostic when a step reports the end, with the error of the first
\* failing step, or with ExecutionTimeLimitReached when step_limit steps have
\* asked to continue.
C4_ThreeOutcomes ==
    /\ steps <= step_limit
    /\ (stack # <<>> => stack[1].def_id = "main" /\ stack[1].return_to_block = CleanupNone)
    /\ (Terminal =>
          \/ pc = "returned" /\ last.op = "empty" /\ diags = <<>>
          \/ /\ pc = "reported" /\ StepFailed
             /\ Len(diags) = 1 /\ diags[1].err = last.res
          \/ /\ pc = "reported" /\ last.op = "timeout" /\ steps = step_limit
             /\ Len(diags) = 1 /\ diags[1].err = "ExecutionTimeLimitReached")

\* C5: once a step has failed the run is over with exactly one diagnostic,
\* which carries the error and one note per frame from the innermost to the
\* root; no step follows a diagnostic.
C5_ErrorEndsRun ==
    /\ [](StepFailed =>
            /\ pc = "reported"
            /\ Len(diags) = 1
            /\ diags[1].err = last.res
            /\ Len(diags[1].notes) = Len(stack)
            /\ \A i \in 1..Len(stack) :
                  diags[1].notes[i] = NoteOf(stack[Len(stack) + 1 - i]))
    /\ [][pc # "reported"]_vars

\* C5: a step has failed under two frames of different functions.
C5_Witness ==
    /\ StepFailed
    /\ pc = "reported"
    /\ Len(stack) >= 2
    /\ stack[1].def_id # stack[Len(stack)].def_id

----------------------------------------------------------------------------
\* Failing operations.

\* The step that ends in the primed state ran op, and it failed.
Failed(op) == last'.op = op /\ last'.res # "Ok"

\* Every allocation of before is there after, and still live.
AllocationsKept ==
    /\ Len(memory'.allocs) >= Len(memory.allocs)
    /\ \A a \in 1..Len(memory.allocs) : IsLive(memory, a) => IsLive(memory', a)

\* C6, as stated: when push_stack_frame, an assignment or call_intrinsic
\* returns an error, the stack and the memory are as before the operation.
C6_Original ==
    [][(Failed("push") \/ Failed("assign") \/ Failed("intrinsic"))
          => stack' = stack /\ memory' = memory]_vars

\* C6, as amended: a failing operation is not undone, but it leaves what was
\* on the stack alone. A failing assignment or intrinsic leaves the stack
\* as it was; a push that fails for the limit leaves the frames of before
\* with the new frame on top, and one that fails for an allocation leaves
\* the stack as it was; in each case every allocation of before is kept.
C6_FailureKeepsStack ==
    [][/\ (Failed("assign") \/ Failed("intrinsic") => stack' = stack /\ AllocationsKept)
       /\ (Failed("push") /\ last'.res = "StackFrameLimitReached"
             => NewFrameOnTop /\ AllocationsKept)
       /\ (Failed("push") /\ last'.res # "StackFrameLimitReached"
             => stack' = stack /\ AllocationsKept)]_vars

\* C6: an assignment of an aggregate has failed at its second field, with
\* the first one written.
C6_Witness ==
    /\ last.op = "assign"
    /\ last.res # "Ok"
    /\ \E a \in 1..Len(memory.allocs) :
          /\ Len(memory.allocs[a].bytes) = 2
          /\ memory.allocs[a].bytes[1] # Undef
          /\ memory.allocs[a].bytes[2] = Undef

----------------------------------------------------------------------------
\* The return policy, the locals of a frame and their storage.

\* C7: pop_stack_frame removes the top frame and runs its policy: Freeze(a)
\* makes allocation a immutable, Goto(b) puts the caller's frame at block b,
\* and None changes no frame and no allocation.
C7_PopRunsPolicy ==
    [][last'.op = "pop" =>
         LET f    == frame(stack)
             rest == Front(stack)
         IN  /\ Len(stack') = Len(stack) - 1
             /\ (f.return_to_block.tag = "Freeze" =>
                   /\ stack' = rest
                   /\ memory'.allocs[f.return_to_block.alloc_id].frozen
                   /\ memory'.usage = memory.usage
                   /\ Len(memory'.allocs) = Len(memory.allocs)
                   /\ \A a \in 1..Len(memory.allocs) :
                         /\ memory'.allocs[a].bytes = memory.allocs[a].bytes
                         /\ memory'.allocs[a].live = memory.allocs[a].live
                         /\ (a # f.return_to_block.alloc_id
                               => memory'.allocs[a] = memory.allocs[a]))
             /\ (f.return_to_block.tag = "Goto" =>
                   /\ memory' = memory
                   /\ Front(stack') = Front(rest)
                   /\ frame(stack').block = f.return_to_block.target
                   /\ frame(stack').def_id = frame(rest).def_id
                   /\ frame(stack').locals = frame(rest).locals
                   /\ frame(stack').return_to_block = frame(rest).return_to_block)
             /\ (f.return_to_block.tag = "None" =>
                   stack' = rest /\ memory' = memory)]_vars

\* C7: the frame that computed a constant has been popped, and the storage
\* of the constant is frozen.
C7_Witness ==
    /\ last.op = "pop"
    /\ last.frame.return_to_block.tag = "Freeze"
    /\ memory.allocs[last.frame.return_to_block.alloc_id].frozen
    /\ Len(stack) = 1

\* C8: the frame pushed for a body with k locals has k slots, slot 0 is the
\* return address the caller gave, slots 1..k-1 are k-1 new allocations of
\* the locals' sizes, and the frame is at statement 0 of the start block.
C8_FrameLayout ==
    [][last'.op = "push" /\ FramePushed =>
         LET f  == frame(stack')
             k  == Len(local_decls(last'.def_id))
             n0 == IF last'.return_ptr.alloc_id > Len(memory.allocs)
                   THEN Len(memory.allocs) + 1
                   ELSE Len(memory.allocs)
         IN  /\ Len(f.locals) = k
             /\ f.locals[1] = last'.return_ptr
             /\ Len(memory'.allocs) = n0 + (k - 1)
             /\ \A i \in 2..k :
                   /\ f.locals[i] = Pointer(n0 + i - 1, 0)
                   /\ Len(memory'.allocs[n0 + i - 1].bytes)
                        = type_size(local_decls(last'.def_id)[i])
             /\ \A a \in 1..Len(memory.allocs) :
                   memory'.allocs[a] = memory.allocs[a]
             /\ f.block = START_BLOCK
             /\ f.stmt = 0]_vars

\* C8: a frame with three slots has been pushed for a call, its return slot
\* being a local of the caller.
C8_Witness ==
    /\ last.op = "push"
    /\ last.res = "Ok"
    /\ Len(stack) >= 2
    /\ Len(frame(stack).locals) = 3
    /\ frame(stack).locals[1] = last.return_ptr
    /\ last.return_ptr \in {stack[Len(stack) - 1].locals[i] :
                               i \in 1..Len(stack[Len(stack) - 1].locals)}

\* C9: no step frees an allocation, and after a pop the storage of every
\* slot of the popped frame, the return slot included, is live and within
\* bounds at the size of its type.
C9_PopFreesNothing ==
    [][/\ AllocationsKept
       /\ (last'.op = "pop" =>
             \A i \in 1..Len(last'.frame.locals) :
                /\ InBounds(memory', last'.frame.locals[i],
                            type_size(local_decls(last'.frame.def_id)[i]))
                /\ memory'.allocs[last'.frame.locals[i].alloc_id].bytes
                     = memory.allocs[last'.frame.locals[i].alloc_id].bytes)]_vars

\* C9: a called frame with locals of its own has been popped.
C9_Witness ==
    /\ last.op = "pop"
    /\ last.res = "Ok"
    /\ Len(last.frame.locals) >= 2
    /\ Len(stack) >= 1
    /\ \A i \in 1..Len(last.frame.locals) : IsLive(memory, last.frame.locals[i].alloc_id)

----------------------------------------------------------------------------
\* Places: the operations of Lvalue, applied to places of every shape.

\* The allocations the places examined point into are 1..MaxAlloc.
MaxAlloc == 2

\* The variants a downcast place may name are 0..MaxVariant.
MaxVariant == 1

Extras ==
    {ExtraNone}
    \cup {ExtraLength(n) : n \in 0..MaxOffset}
    \cup {ExtraVtable(Pointer(a, 0)) : a \in 1..MaxAlloc}
    \cup {ExtraDowncastVariant(v) : v \in 0..MaxVariant}

Lvalues ==
    {Lvalue(Pointer(a, o), e) : a \in 1..MaxAlloc, o \in 0..MaxOffset, e \in Extras}

LvInit ==
    /\ stack = <<>>
    /\ memory = EmptyMemory
    /\ statics = <<>>
    /\ stack_limit = 1
    /\ step_limit = 0
    /\ pc = "places"
    /\ steps = 0
    /\ diags = <<>>
    /\ last = NoOp
    /\ entry_depth = <<>>
    /\ lv \in Lvalues
    /\ lvres = NoLvRes

\* The place is coerced to a bare address.
LvToPtr ==
    /\ lvres.op = "none"
    /\ lvres' = [op |-> "to_ptr", r |-> to_ptr(lv)]
    /\ UNCHANGED lv
    /\ UNCHANGED driver_vars

LvNext == LvToPtr

SpecLvalue == LvInit /\ [][LvNext]_vars

\* C10: to_ptr succeeds, with the address of the place, if and only if the
\* metadata of the place is None; with a length, a vtable or a variant it
\* aborts.
C10_ToPtrIffNone ==
    lvres.op = "to_ptr" =>
       /\ (lvres.r.res = "Ok" <=> lv.extra = ExtraNone)
       /\ (lvres.r.res = "Ok" => lvres.r.ptr = lv.ptr)
       /\ (lv.extra.tag \in {"Length", "Vtable", "DowncastVariant"}
             => lvres.r.res = "panic")

\* C10: to_ptr has aborted on a place that carries a vtable.
C10_Witness ==
    /\ lvres.op = "to_ptr"
    /\ lv.extra.tag = "Vtable"
    /\ lvres.r.res = "panic"

----------------------------------------------------------------------------
\* Projections of places: Index and ConstantIndex of eval_lvalue.

\* The sequences examined have lengths 0..MaxLen; indices and offsets run
\* one past it.
MaxLen == 3

TyArray(elem, n) == [kind |-> "array", elem |-> elem, n |-> n]

TySlice(elem) == [kind |-> "slice", elem |-> elem]

TyOther(name) == [kind |-> "other", elem |-> [sty |-> name]]

\* The size in bytes of an element type.
elem_size(ty) == type_size(ty)

\* elem_ty_and_len: the element type and the length of the array or slice
\* that place l of type ty is; the length of a slice is the place's metadata.
elem_ty_and_len(l, ty) ==
    IF ty.kind = "array" THEN [res |-> "Ok", elem |-> ty.elem, len |-> ty.n]
    ELSE IF ty.kind = "slice" /\ l.extra.tag = "Length"
         THEN [res |-> "Ok", elem |-> ty.elem, len |-> l.extra.len]
         ELSE [res |-> "panic", elem |-> TyUnit, len |-> 0]

\* An Index projection that asserts n <= len.
eval_lvalue_Index_le(base, base_ty, n) ==
    LET el == elem_ty_and_len(base, base_ty)
    IN  IF el.res # "Ok" \/ ~(n <= el.len)
        THEN [res |-> "panic", lvalue |-> NoLvalue]
        ELSE [res    |-> "Ok",
              lvalue |-> Lvalue(offset(base.ptr, n * elem_size(el.elem)), ExtraNone)]

\* The Index arm of eval_lvalue, for a base already resolved and an index
\* operand that evaluated to n.
eval_lvalue_Index(base, base_ty, n) ==
    LET el == elem_ty_and_len(base, base_ty)
    IN  IF el.res # "Ok" \/ ~(n < el.len)
        THEN [res |-> "panic", lvalue |-> NoLvalue]
        ELSE [res    |-> "Ok",
              lvalue |-> Lvalue(offset(base.ptr, n * elem_size(el.elem)), ExtraNone)]

\* The ConstantIndex arm of eval_lvalue, for a base already resolved.
eval_lvalue_ConstantIndex(base, base_ty, off, min_length, from_end) ==
    LET el == elem_ty_and_len(base, base_ty)
    IN  IF el.res # "Ok" \/ ~(el.len >= min_length)
        THEN [res |-> "panic", lvalue |-> NoLvalue]
        ELSE [res    |-> "Ok",
              lvalue |-> Lvalue(
                  IF from_end
                  THEN offset(base.ptr, (el.len - off) * elem_size(el.elem))
                  ELSE offset(base.ptr, off * elem_size(el.elem)),
                  ExtraNone)]

\* a <= b between two u64, each written as the integer of [-2^63, 2^63) that
\* it is congruent to modulo 2^64.
U64Le(a, b) == IF (a < 0) = (b < 0) THEN a <= b ELSE b < 0

\* The Subslice arm of eval_lvalue, for a base already resolved. The
\* subtractions are of u64: n - to below zero panics in a build that checks
\* overflow and wraps in one that does not. A u64 is written as the integer
\* of [-2^63, 2^63) that it is congruent to modulo 2^64.
eval_lvalue_Subslice(base, base_ty, from, to, overflow_checks) ==
    LET el == elem_ty_and_len(base, base_ty)
    IN  IF el.res # "Ok" THEN [res |-> "panic", lvalue |-> NoLvalue]
        ELSE IF overflow_checks /\ el.len < to
             THEN [res |-> "panic", lvalue |-> NoLvalue]
        ELSE IF ~U64Le(from, el.len - to)
             THEN [res |-> "panic", lvalue |-> NoLvalue]
        ELSE [res    |-> "Ok",
              lvalue |-> Lvalue(offset(base.ptr, from * elem_size(el.elem)),
                                ExtraLength(el.len - to - from))]

\* The places that are projected: in allocation 1, with no metadata or with
\* the length of a slice.
Bases ==
    {Lvalue(Pointer(1, o), e) :
        o \in 0..MaxOffset, e \in {ExtraNone} \cup {ExtraLength(n) : n \in 0..MaxLen}}

\* The types of the places that are projected.
BaseTypes ==
    {TyArray(e, n) : e \in {TyU8, TyPair}, n \in 0..MaxLen}
    \cup {TySlice(e) : e \in {TyU8, TyPair}}
    \cup {TyOther("u8")}

ProjInit ==
    /\ stack = <<>>
    /\ memory = EmptyMemory
    /\ statics = <<>>
    /\ stack_limit = 1
    /\ step_limit = 0
    /\ pc = "places"
    /\ steps = 0
    /\ diags = <<>>
    /\ last = NoOp
    /\ entry_depth = <<>>
    /\ lv \in Bases
    /\ lvres = NoLvRes

\* The place is indexed by a value.
ProjIndex ==
    /\ lvres.op = "none"
    /\ \E ty \in BaseTypes, n \in 0..(MaxLen + 1) :
          lvres' = [op |-> "Index", ty |-> ty, n |-> n,
                    r |-> eval_lvalue_Index(lv, ty, n)]
    /\ UNCHANGED lv
    /\ UNCHANGED driver_vars

\* The place is indexed by a constant offset, from the start or from the end.
ProjConstantIndex ==
    /\ lvres.op = "none"
    /\ \E ty \in BaseTypes, off \in 0..(MaxLen + 1), min_length \in 0..(MaxLen + 1),
          from_end \in BOOLEAN :
          lvres' = [op |-> "ConstantIndex", ty |-> ty, off |-> off,
                    min_length |-> min_length, from_end |-> from_end,
                    r |-> eval_lvalue_ConstantIndex(lv, ty, off, min_length, from_end)]
    /\ UNCHANGED lv
    /\ UNCHANGED driver_vars

\* A sub-slice of the place is taken, without its first from and its last
\* to elements, by an interpreter built with or without overflow checks.
ProjSubslice ==
    /\ lvres.op = "none"
    /\ \E ty \in BaseTypes, from \in 0..(MaxLen + 1), to \in 0..(MaxLen + 1),
          overflow_checks \in BOOLEAN :
          lvres' = [op |-> "Subslice", ty |-> ty, from |-> from, to |-> to,
                    overflow_checks |-> overflow_checks,
                    r |-> eval_lvalue_Subslice(lv, ty, from, to, overflow_checks)]
    /\ UNCHANGED lv
    /\ UNCHANGED driver_vars

ProjNext == ProjIndex \/ ProjConstantIndex \/ ProjSubslice

SpecProjection == ProjInit /\ [][ProjNext]_vars

\* The place lv, seen at type ty, is a sequence whose length is resolved: an
\* array, or a slice whose place carries its length.
IsSequence(ty) ==
    ty.kind = "array" \/ (ty.kind = "slice" /\ lv.extra.tag = "Length")

\* The resolved length of the sequence lv at type ty.
SeqLen(ty) == IF ty.kind = "array" THEN ty.n ELSE lv.extra.len

\* The address k elements of type ty.elem after the address of lv.
ElemAddr(ty, k) == Pointer(lv.ptr.alloc_id, lv.ptr.offset + k * type_size(ty.elem))

\* C11: indexing a sequence of resolved length len by the value len aborts;
\* by every value n < len it resolves to base + n * element_size with
\* metadata None.
C11_IndexInBounds ==
    (lvres.op = "Index" /\ IsSequence(lvres.ty)) =>
       /\ (lvres.n = SeqLen(lvres.ty) => lvres.r.res = "panic")
       /\ (lvres.n < SeqLen(lvres.ty) =>
             /\ lvres.r.res = "Ok"
             /\ lvres.r.lvalue = Lvalue(ElemAddr(lvres.ty, lvres.n), ExtraNone))

\* C11: a slice of at least two elements of two bytes has been indexed at
\* its last element.
C11_Witness ==
    /\ lvres.op = "Index"
    /\ lvres.ty = TySlice(TyPair)
    /\ lv.extra.tag = "Length"
    /\ lv.extra.len >= 2
    /\ lvres.n = lv.extra.len - 1
    /\ lvres.r.res = "Ok"

\* C12: a constant-offset projection on a sequence of resolved length n that
\* does not abort resolves to base + k * element_size with 0 <= k < n.
C12_ConstantIndexInRange ==
    (lvres.op = "ConstantIndex" /\ IsSequence(lvres.ty) /\ lvres.r.res = "Ok") =>
       \E k \in 0..(SeqLen(lvres.ty) - 1) :
          lvres.r.lvalue = Lvalue(ElemAddr(lvres.ty, k), ExtraNone)

----------------------------------------------------------------------------
\* Binary operations: BinaryOp, CheckedBinaryOp and add_with_overflow.

\* The carry into byte i of the sum of the integers a and b.
RECURSIVE AddCarry(_, _, _)
AddCarry(a, b, i) ==
    IF i = 1 THEN 0 ELSE (a[i - 1] + b[i - 1] + AddCarry(a, b, i - 1)) \div 256

\* primval::binary_op for Add on two unsigned integers of one size, the sum
\* modulo 2^(8 * size) and whether it overflowed, and on two floats of one
\* size, whose sum is exact for the integers examined.
binary_op(op, left, right) ==
    IF op = "Add" /\ left.kind = "Int" /\ right.kind = "Int"
       /\ left.size = right.size /\ left.signed = right.signed /\ ~left.signed
    THEN [res      |-> "Ok",
          val      |-> PrimInt(FALSE, left.size,
                          [i \in 1..left.size |->
                              (left.bytes[i] + right.bytes[i]
                                 + AddCarry(left.bytes, right.bytes, i)) % 256]),
          overflow |-> AddCarry(left.bytes, right.bytes, left.size + 1) = 1]
    ELSE IF op = "Add" /\ left.kind = "Float" /\ right.kind = "Float"
            /\ left.size = right.size
    THEN [res      |-> "Ok",
          val      |-> PrimFloat(left.size, left.v + right.v),
          overflow |-> FALSE]
    ELSE [res |-> "Unimplemented", val |-> NoPrim, overflow |-> FALSE]

\* EvalContext::write_primval.
write_primval(mem, dest, val) ==
    LET d == to_ptr(dest)
    IN  IF d.res # "Ok" THEN [res |-> "panic", mem |-> mem]
        ELSE write_primval_to(mem, d.ptr, val)

\* Memory::write_bool.
write_bool(mem, dest, b) == write_primval_to(mem, dest, PrimBool(b))

\* EvalContext::intrinsic_overflowing, for operands that evaluated to the
\* primitive values left and right.
intrinsic_overflowing(mem, op, left, right, dest) ==
    LET r == binary_op(op, left, right)
        w == write_primval(mem, dest, r.val)
    IN  IF r.res # "Ok" THEN [res |-> r.res, mem |-> mem, overflow |-> FALSE]
        ELSE [res |-> w.res, mem |-> w.mem, overflow |-> r.overflow]

\* A checked operation that does not wrap its result: the sum of the low
\* bytes is written as it is.
intrinsic_with_overflow_nowrap(mem, op, left, right, dest, dest_layout) ==
    LET d == to_ptr(dest)
        w == WriteBytes(mem, d.ptr,
                        [i \in 1..left.size |->
                            Byte(IF i = 1 THEN left.bytes[1] + right.bytes[1] ELSE 0)])
    IN  IF dest_layout.kind # "Univariant" \/ d.res # "Ok"
        THEN [res |-> "panic", mem |-> mem]
        ELSE IF w.res # "Ok" THEN w
        ELSE write_bool(w.mem, offset(d.ptr, dest_layout.offsets[2]), FALSE)

\* EvalContext::intrinsic_with_overflow.
intrinsic_with_overflow(mem, op, left, right, dest, dest_layout) ==
    LET o == intrinsic_overflowing(mem, op, left, right, dest)
        d == to_ptr(dest)
    IN  IF dest_layout.kind # "Univariant" THEN [res |-> "panic", mem |-> mem]
        ELSE IF o.res # "Ok" THEN [res |-> o.res, mem |-> o.mem]
        ELSE IF d.res # "Ok" THEN [res |-> "panic", mem |-> o.mem]
        ELSE write_bool(o.mem, offset(d.ptr, dest_layout.offsets[2]), o.overflow)


\* The unsigned integers of size bytes that are operated on: 0, 1, 5, 7 and
\* 255 in the low byte, under high bytes all 0 or all 255.
UintSamples(size) ==
    {PrimInt(FALSE, size, [i \in 1..size |-> IF i = 1 THEN lo ELSE hi]) :
        lo \in {0, 1, 5, 7, 255}, hi \in {0, 255}}

\* The sizes in bytes of the integers operated on.
IntSizes == {1, 2, 4}

\* The layouts the layout oracle may report for the destination (uN, bool)
\* of a checked operation on integers of size bytes: the fields in either
\* order, and a layout that is no record.
TupleLayouts(size) ==
    {Univariant(<<0, size>>), Univariant(<<size, 0>>), General(1, <<>>)}

\* The destinations written: the start of allocation 1, without metadata and
\* with a length.
Dests == {Lvalue(Pointer(1, 0), ExtraNone), Lvalue(Pointer(1, 0), ExtraLength(1))}

BinOpInit ==
    /\ stack = <<>>
    /\ memory = Allocate(EmptyMemory, MemorySize, 1).mem
    /\ statics = <<>>
    /\ stack_limit = 1
    /\ step_limit = 0
    /\ pc = "values"
    /\ steps = 0
    /\ diags = <<>>
    /\ last = NoOp
    /\ entry_depth = <<>>
    /\ lv \in Dests
    /\ lvres = NoLvRes

\* What leaves a one-operation specification alone.
value_frame == <<stack, statics, stack_limit, step_limit, pc, steps, diags,
                 entry_depth, lv, lvres>>

\* The statement dest = BinaryOp(Add, left, right).
BinaryOp ==
    /\ last.op = "none"
    /\ \E size \in IntSizes :
       \E left \in UintSamples(size), right \in UintSamples(size) :
          LET r == intrinsic_overflowing(memory, "Add", left, right, lv)
          IN  /\ memory' = r.mem
              /\ last' = [op |-> "BinaryOp", res |-> r.res, left |-> left,
                          right |-> right, layout |-> Univariant(<<0>>)]
    /\ UNCHANGED value_frame

\* The statement dest = CheckedBinaryOp(Add, left, right).
CheckedBinaryOp ==
    /\ last.op = "none"
    /\ \E size \in IntSizes :
       \E left \in UintSamples(size), right \in UintSamples(size),
          layout \in TupleLayouts(size) :
          LET r == intrinsic_with_overflow(memory, "Add", left, right, lv, layout)
          IN  /\ memory' = r.mem
              /\ last' = [op |-> "CheckedBinaryOp", res |-> r.res, left |-> left,
                          right |-> right, layout |-> layout]
    /\ UNCHANGED value_frame

\* The call add_with_overflow(left, right) of call_intrinsic.
AddWithOverflow ==
    /\ last.op = "none"
    /\ \E size \in IntSizes :
       \E left \in UintSamples(size), right \in UintSamples(size),
          layout \in TupleLayouts(size) :
          LET r == intrinsic_with_overflow(memory, "Add", left, right, lv, layout)
          IN  /\ memory' = r.mem
              /\ last' = [op |-> "add_with_overflow", res |-> r.res, left |-> left,
                          right |-> right, layout |-> layout]
    /\ UNCHANGED value_frame

BinOpNext == BinaryOp \/ CheckedBinaryOp \/ AddWithOverflow

SpecBinOp == BinOpInit /\ [][BinOpNext]_vars

\* The numbers in the n bytes at p, or -1 for a byte that holds no number.
NumbersAt(mem, p, n) ==
    [i \in 1..n |->
        LET b == mem.allocs[p.alloc_id].bytes[p.offset + i]
        IN  IF b.k = "byte" THEN b.v ELSE -1]

\* r and flag are the sum of a and b, as integers of n bytes: in base 256,
\* a + b = r + 256^n * flag, with 0 <= r < 256^n.
IsWrappedSum(a, b, r, flag, n) ==
    \E c \in [1..(n + 1) -> {0, 1}] :
       /\ c[1] = 0
       /\ \A i \in 1..n : r[i] \in 0..255
       /\ \A i \in 1..n : a[i] + b[i] + c[i] = r[i] + 256 * c[i + 1]
       /\ flag = c[n + 1]

\* C13: a checked operation writes the result at the offset of field 0 of the
\* destination tuple and the flag at the offset of field 1, for every record
\* layout; the unchecked operation writes the result and nothing else.
C13_CheckedWritesAtFieldOffsets ==
    /\ (last.op = "CheckedBinaryOp" /\ last.res = "Ok") =>
          \E flag \in {0, 1} :
             /\ IsWrappedSum(last.left.bytes, last.right.bytes,
                             NumbersAt(memory, offset(lv.ptr, last.layout.offsets[1]),
                                       last.left.size),
                             flag, last.left.size)
             /\ NumbersAt(memory, offset(lv.ptr, last.layout.offsets[2]), 1) = <<flag>>
    /\ (last.op = "BinaryOp" /\ last.res = "Ok") =>
          \A i \in 1..MemorySize :
             (i > last.left.size) => memory.allocs[1].bytes[i] = Undef


\* C14: checked addition of the unsigned integers a and b of w bits writes
\* (a + b) mod 2^w to the destination pair, and the flag a + b >= 2^w after
\* it; 7u32 + 5u32 writes (12, false) and 255u8 + 1u8 writes (0, true). The
\* destination pair has its integer at offset 0.
C14_CheckedAddWraps ==
    (/\ last.op = "add_with_overflow"
     /\ last.layout = Univariant(<<0, last.left.size>>)
     /\ lv.extra = ExtraNone) =>
       /\ last.res = "Ok"
       /\ \E flag \in {0, 1} :
             /\ IsWrappedSum(last.left.bytes, last.right.bytes,
                             NumbersAt(memory, lv.ptr, last.left.size),
                             flag, last.left.size)
             /\ NumbersAt(memory, offset(lv.ptr, last.left.size), 1) = <<flag>>
       /\ (last.left.bytes = <<7, 0, 0, 0>> /\ last.right.bytes = <<5, 0, 0, 0>>) =>
             NumbersAt(memory, lv.ptr, 5) = <<12, 0, 0, 0, 0>>
       /\ (last.left.bytes = <<255>> /\ last.right.bytes = <<1>>) =>
             NumbersAt(memory, lv.ptr, 2) = <<0, 1>>

\* C14: 255u8 + 1u8 has written (0, true).
C14_Witness ==
    /\ last.op = "add_with_overflow"
    /\ last.res = "Ok"
    /\ last.left.bytes = <<255>>
    /\ last.right.bytes = <<1>>
    /\ last.layout = Univariant(<<0, 1>>)
    /\ NumbersAt(memory, lv.ptr, 2) = <<0, 1>>

----------------------------------------------------------------------------
\* The value protocol: read_value after write_value_to_ptr.

\* Memory::get_bytes: the numbers in the n bytes at p; bytes of a pointer
\* and undefined bytes are not read as numbers.
read_bytes(mem, p, n) ==
    IF ~IsLive(mem, p.alloc_id) THEN [res |-> "DanglingPointerDeref", bytes |-> <<>>]
    ELSE IF ~InBounds(mem, p, n) THEN [res |-> "PointerOutOfBounds", bytes |-> <<>>]
    ELSE LET bs == BytesAt(mem, p, n)
         IN  IF \E i \in 1..n : bs[i].k = "ptr"
             THEN [res |-> "ReadPointerAsBytes", bytes |-> <<>>]
             ELSE IF \E i \in 1..n : bs[i] = Undef
                  THEN [res |-> "ReadUndefBytes", bytes |-> <<>>]
                  ELSE [res |-> "Ok", bytes |-> [i \in 1..n |-> bs[i].v]]

\* Memory::read_uint: the u64 whose low size bytes are at p.
read_uint(mem, p, size) ==
    LET r == read_bytes(mem, p, size)
    IN  IF r.res # "Ok" THEN [res |-> r.res, n |-> <<>>]
        ELSE [res |-> "Ok",
              n   |-> [i \in 1..8 |-> IF i <= size THEN r.bytes[i] ELSE 0]]

\* Memory::read_int: the i64 that the size bytes at p sign-extend to.
read_int(mem, p, size) ==
    LET r == read_bytes(mem, p, size)
    IN  IF r.res # "Ok" THEN [res |-> r.res, n |-> <<>>]
        ELSE [res |-> "Ok",
              n   |-> [i \in 1..8 |->
                          IF i <= size THEN r.bytes[i]
                          ELSE IF size > 0 /\ r.bytes[size] >= 128 THEN 255 ELSE 0]]

\* Memory::read_f32 and Memory::read_f64: the float whose encoding is at p;
\* the floats that are no integer of FloatRange are not examined.
read_float(mem, p, size) ==
    LET r == read_bytes(mem, p, size)
    IN  IF r.res # "Ok" THEN [res |-> r.res, v |-> 0]
        ELSE IF \E v \in FloatRange : FloatBytes(size, v) = r.bytes
             THEN [res |-> "Ok",
                   v   |-> CHOOSE v \in FloatRange : FloatBytes(size, v) = r.bytes]
             ELSE [res |-> "OtherFloat", v |-> 0]

\* Memory::read_usize.
read_usize(mem, p) == read_uint(mem, p, PointerSize)

\* Memory::read_bool.
read_bool(mem, p) ==
    LET r == read_bytes(mem, p, 1)
    IN  IF r.res # "Ok" THEN [res |-> r.res, b |-> FALSE]
        ELSE IF r.bytes[1] \in {0, 1} THEN [res |-> "Ok", b |-> r.bytes[1] = 1]
        ELSE [res |-> "InvalidBool", b |-> FALSE]

\* PrimVal::uint_with_size: the u64 n as U8, U16, U32 or U64.
uint_with_size(n, size) ==
    IF size \in {1, 2, 4, 8} THEN PrimInt(FALSE, size, SubSeq(n, 1, size)) ELSE NoPrim

\* PrimVal::int_with_size: the i64 n as I8, I16, I32 or I64.
int_with_size(n, size) ==
    IF size \in {1, 2, 4, 8} THEN PrimInt(TRUE, size, SubSeq(n, 1, size)) ELSE NoPrim

\* EvalContext::usize_primval: the u64 n as the unsigned integer of pointer size.
usize_primval(n) == uint_with_size(n, PointerSize)

\* EvalContext::isize_primval.
isize_primval(n) == int_with_size(n, PointerSize)

\* char::from_u32 accepts the u32 with bytes c: at most 0x10FFFF and no
\* surrogate (0xD800..0xDFFF).
from_u32_ok(c) ==
    /\ c[4] = 0
    /\ c[3] <= 16
    /\ ~(c[3] = 0 /\ c[2] >= 216 /\ c[2] <= 223)

ReadOk(prim) == [res |-> "Ok", value |-> ByVal(prim)]

ReadErr(e) == [res |-> e, value |-> NoValue]


\* EvalContext::read_value, for the types other than function pointers.
read_value(mem, ptr, ty) ==
    CASE ty.sty = "Bool" ->
            LET b == read_bool(mem, ptr)
            IN  IF b.res # "Ok" THEN ReadErr(b.res) ELSE ReadOk(PrimBool(b.b))
      [] ty.sty = "Char" ->
            LET c == read_uint(mem, ptr, 4)
            IN  IF c.res # "Ok" THEN ReadErr(c.res)
                ELSE IF from_u32_ok(SubSeq(c.n, 1, 4))
                     THEN ReadOk(PrimChar(SubSeq(c.n, 1, 4)))
                     ELSE ReadErr("InvalidChar")
      [] ty.sty = "Int" ->
            LET n == read_int(mem, ptr, int_ty_size(ty))
            IN  IF n.res # "Ok" THEN ReadErr(n.res)
                ELSE ReadOk(int_with_size(n.n, int_ty_size(ty)))
      [] ty.sty = "Uint" ->
            LET n == read_uint(mem, ptr, int_ty_size(ty))
            IN  IF n.res # "Ok" THEN ReadErr(n.res)
                ELSE ReadOk(uint_with_size(n.n, int_ty_size(ty)))
      [] ty.sty = "Float" ->
            LET f == read_float(mem, ptr, ty.size)
            IN  IF f.res # "Ok" THEN ReadErr(f.res)
                ELSE ReadOk(PrimFloat(ty.size, f.v))
      [] ty.sty = "Ref" ->
            LET p     == read_ptr(mem, ptr)
                extra == offset(ptr, PointerSize)
                v     == read_ptr(mem, extra)
                n     == read_usize(mem, extra)
            IN  IF p.res # "Ok" THEN ReadErr(p.res)
                ELSE IF type_is_sized(ty.pointee) THEN ReadOk(PrimPtr(p.ptr))
                ELSE IF ty.pointee = "trait"
                     THEN IF v.res # "Ok" THEN ReadErr(v.res)
                          ELSE [res   |-> "Ok",
                                value |-> ByValPair(PrimPtr(p.ptr), PrimPtr(v.ptr))]
                     ELSE IF n.res # "Ok" THEN ReadErr(n.res)
                          ELSE [res   |-> "Ok",
                                value |-> ByValPair(PrimPtr(p.ptr), usize_primval(n.n))]
      [] ty.sty = "Adt" ->
            IF ty.layout.kind # "CEnum" THEN ReadErr("panic")
            ELSE IF ty.layout.signed
                 THEN LET n == read_int(mem, ptr, ty.layout.discr)
                      IN  IF n.res # "Ok" THEN ReadErr(n.res)
                          ELSE ReadOk(int_with_size(n.n, ty.layout.discr))
                 ELSE LET n == read_uint(mem, ptr, ty.layout.discr)
                      IN  IF n.res # "Ok" THEN ReadErr(n.res)
                          ELSE ReadOk(uint_with_size(n.n, ty.layout.discr))
      [] OTHER -> ReadErr("panic")

\* The integers of size bytes examined: 0, 1, 128 and 255 in the low byte,
\* under high bytes all 0 or all 255.
IntSamples(signed, size) ==
    {PrimInt(signed, size, [i \in 1..size |-> IF i = 1 THEN lo ELSE hi]) :
        lo \in {0, 1, 128, 255}, hi \in {0, 255}}

\* The chars examined: 'A', U+D7FF, U+E000 and U+10FFFF.
CharSamples ==
    {PrimChar(<<65, 0, 0, 0>>), PrimChar(<<255, 215, 0, 0>>),
     PrimChar(<<0, 224, 0, 0>>), PrimChar(<<255, 255, 16, 0>>)}

\* The addresses examined as pointer values.
PtrSamples == {Pointer(a, o) : a \in 1..MaxAlloc, o \in 0..MaxOffset}

\* The values of the kinds read_value supports, each with its type.
TypedValues ==
    {[ty |-> TyBool, value |-> ByVal(PrimBool(b))] : b \in BOOLEAN}
    \cup {[ty |-> TyChar, value |-> ByVal(c)] : c \in CharSamples}
    \cup UNION {{[ty |-> TyInt(size), value |-> ByVal(v)] : v \in IntSamples(TRUE, size)} :
                  size \in {1, 2, 4, 8}}
    \cup UNION {{[ty |-> TyUint(size), value |-> ByVal(v)] : v \in IntSamples(FALSE, size)} :
                  size \in {1, 2, 4, 8}}
    \cup {[ty |-> TyIsize, value |-> ByVal(v)] : v \in IntSamples(TRUE, PointerSize)}
    \cup {[ty |-> TyUsize, value |-> ByVal(v)] : v \in IntSamples(FALSE, PointerSize)}
    \cup {[ty |-> TyRef("u8"), value |-> ByVal(PrimPtr(p))] : p \in PtrSamples}
    \cup {[ty |-> TyRef(tail), value |-> ByValPair(PrimPtr(p), len)] :
             tail \in {"slice", "str"}, p \in PtrSamples,
             len \in IntSamples(FALSE, PointerSize)}
    \cup {[ty |-> TyRef("trait"), value |-> ByValPair(PrimPtr(p), PrimPtr(Pointer(2, 0)))] :
             p \in PtrSamples}

\* The addresses written: in allocation 1.
ValueDests == {Lvalue(Pointer(1, o), ExtraNone) : o \in 0..MaxOffset}

ValueInit ==
    /\ stack = <<>>
    /\ memory = Allocate(EmptyMemory, MemorySize, 1).mem
    /\ statics = <<>>
    /\ stack_limit = 1
    /\ step_limit = 0
    /\ pc = "values"
    /\ steps = 0
    /\ diags = <<>>
    /\ last = NoOp
    /\ entry_depth = <<>>
    /\ lv \in ValueDests
    /\ lvres = NoLvRes

\* A value is written at an address and read back at the same type.
WriteRead ==
    /\ last.op = "none"
    /\ \E tv \in TypedValues :
          LET w == write_value_to_ptr(memory, tv.value, lv.ptr, tv.ty)
              r == read_value(w.mem, lv.ptr, tv.ty)
          IN  /\ memory' = w.mem
              /\ last' = [op |-> "write_read", res |-> w.res, ty |-> tv.ty,
                          value |-> tv.value, rres |-> r.res, read |-> r.value]
    /\ UNCHANGED value_frame

ValueNext == WriteRead

SpecValue == ValueInit /\ [][ValueNext]_vars

\* C15: a value of a kind read_value supports, written at an address with
\* write_value_to_ptr and read at that address at the same type, is read as
\* the value written.
C15_WriteThenRead ==
    (last.op = "write_read" /\ last.res = "Ok") =>
       /\ last.rres = "Ok"
       /\ last.read = last.value

\* C15: a slice pointer with a length has been written and read back.
C15_Witness ==
    /\ last.op = "write_read"
    /\ last.res = "Ok"
    /\ last.ty = TyRef("slice")
    /\ last.value.tag = "ByValPair"
    /\ last.value.b.bytes[1] = 255
    /\ last.rres = "Ok"

----------------------------------------------------------------------------
\* Aggregates: their construction, their discriminant and their fields.

\* The layout of a two-variant enum that is a pointer in variant nndiscr and
\* null in the other; value is the size in bytes of the pointer-like word.
RawNullablePointer(nndiscr, value) ==
    [kind |-> "RawNullablePointer", nndiscr |-> nndiscr, value |-> value]

\* The layout of a two-variant enum whose variant nndiscr is a record with
\* the field offsets nonnull, one field of which, found by the path
\* discrfield, is never null; the other variant is that field being null.
StructWrappedNullablePointer(nndiscr, nonnull, discrfield) ==
    [kind |-> "StructWrappedNullablePointer", nndiscr |-> nndiscr,
     nonnull |-> nonnull, discrfield |-> discrfield]

\* The u64 n, for n < 256.
U64(n) == [i \in 1..8 |-> IF i = 1 THEN n ELSE 0]

\* Memory::write_int: the low size bytes of the i64 n.
write_int(mem, p, n, size) == WriteBytes(mem, p, [i \in 1..size |-> Byte(n[i])])

\* Memory::write_isize.
write_isize(mem, p, n) == write_int(mem, p, n, PointerSize)

\* EvalContext::write_value.
write_value(mem, value, dest, dest_ty) ==
    LET d == to_ptr(dest)
    IN  IF d.res # "Ok" THEN [res |-> "panic", mem |-> mem]
        ELSE write_value_to_ptr(mem, value, d.ptr, dest_ty)

\* EvalContext::get_field_ty.
get_field_ty(ty, field_index) ==
    CASE ty.sty = "Adt" -> [res |-> "Ok", ty |-> ty.variants[1][field_index + 1]]
      [] ty.sty = "Ref" ->   \* the pointee, into which no path examined continues
            IF field_index = 0 THEN [res |-> "Ok", ty |-> TyUnit]
            ELSE [res |-> "panic", ty |-> TyUnit]
      [] OTHER -> [res |-> "Unimplemented", ty |-> TyUnit]

\* EvalContext::get_field_offset; FAT_PTR_ADDR is field 0 of a fat pointer.
get_field_offset(ty, field_index) ==
    CASE type_layout(ty).kind = "Univariant" ->
            [res |-> "Ok", offset |-> type_layout(ty).offsets[field_index + 1]]
      [] type_layout(ty).kind = "FatPointer" -> [res |-> "Ok", offset |-> 0 * PointerSize]
      [] OTHER -> [res |-> "Unimplemented", offset |-> 0]

\* EvalContext::field_path_offset: the sum of the offsets of the fields that
\* path walks through, starting in ty.
RECURSIVE field_path_offset(_, _)
field_path_offset(ty, path) ==
    IF path = <<>> THEN [res |-> "Ok", offset |-> 0]
    ELSE LET fo == get_field_offset(ty, Head(path))
             ft == get_field_ty(ty, Head(path))
             r  == field_path_offset(ft.ty, Tail(path))
         IN  IF fo.res # "Ok" THEN [res |-> fo.res, offset |-> 0]
             ELSE IF ft.res # "Ok" THEN [res |-> ft.res, offset |-> 0]
             ELSE IF r.res # "Ok" THEN r
             ELSE [res |-> "Ok", offset |-> fo.offset + r.offset]

\* EvalContext::nonnull_offset: the first index of the path (after the
\* leading 0) selects the field of variant nndiscr, the rest is walked from
\* the type of that field.
nonnull_offset(ty, nndiscr, discrfield) ==
    LET path  == Tail(discrfield)
        index == Head(path)
    IN  IF ty.sty # "Adt" THEN [res |-> "panic", offset |-> 0]
        ELSE field_path_offset(ty.variants[nndiscr + 1][index + 1], Tail(path))


\* A Field arm that does not skip the discriminant slot of a variant.
eval_lvalue_Field_noskip(base, base_ty, field, field_ty) ==
    LET base_layout == type_layout(base_ty)
    IN  CASE base_layout.kind = "Univariant" ->
                [res    |-> "Ok",
                 lvalue |-> Lvalue(offset(base.ptr, base_layout.offsets[field + 1]),
                                   ExtraNone)]
          [] base_layout.kind = "General" ->
                IF base.extra.tag = "DowncastVariant"
                THEN [res    |-> "Ok",
                      lvalue |-> Lvalue(
                          offset(base.ptr,
                                 base_layout.variants[base.extra.variant + 1][field + 1]),
                          ExtraNone)]
                ELSE [res |-> "panic", lvalue |-> NoLvalue]
          [] base_layout.kind = "RawNullablePointer" ->
                IF field # 0 THEN [res |-> "panic", lvalue |-> NoLvalue]
                ELSE [res |-> "Ok", lvalue |-> base]
          [] base_layout.kind = "StructWrappedNullablePointer" ->
                [res    |-> "Ok",
                 lvalue |-> Lvalue(offset(base.ptr, base_layout.nonnull[field + 1]),
                                   ExtraNone)]
          [] OTHER -> [res |-> "panic", lvalue |-> NoLvalue]

\* The Field arm of eval_lvalue, for a base already resolved; field is the
\* index of the field and field_ty its type, which is sized.
eval_lvalue_Field(base, base_ty, field, field_ty) ==
    LET base_layout == type_layout(base_ty)
    IN  CASE base_layout.kind = "Univariant" ->
                [res    |-> "Ok",
                 lvalue |-> Lvalue(offset(base.ptr, base_layout.offsets[field + 1]),
                                   ExtraNone)]
          [] base_layout.kind = "General" ->
                IF base.extra.tag = "DowncastVariant"
                THEN [res    |-> "Ok",
                      lvalue |-> Lvalue(
                          offset(base.ptr,
                                 base_layout.variants[base.extra.variant + 1][(field + 1) + 1]),
                          ExtraNone)]
                ELSE [res |-> "panic", lvalue |-> NoLvalue]
          [] base_layout.kind = "RawNullablePointer" ->
                IF field # 0 THEN [res |-> "panic", lvalue |-> NoLvalue]
                ELSE [res |-> "Ok", lvalue |-> base]
          [] base_layout.kind = "StructWrappedNullablePointer" ->
                [res    |-> "Ok",
                 lvalue |-> Lvalue(offset(base.ptr, base_layout.nonnull[field + 1]),
                                   ExtraNone)]
          [] OTHER -> [res |-> "panic", lvalue |-> NoLvalue]

\* The Downcast arm of eval_lvalue, for a base already resolved.
eval_lvalue_Downcast(base, base_ty, variant) ==
    LET base_layout == type_layout(base_ty)
    IN  CASE base_layout.kind = "General" ->
                [res |-> "Ok", lvalue |-> Lvalue(base.ptr, ExtraDowncastVariant(variant))]
          [] base_layout.kind \in {"RawNullablePointer", "StructWrappedNullablePointer"} ->
                [res |-> "Ok", lvalue |-> base]
          [] OTHER -> [res |-> "panic", lvalue |-> NoLvalue]

\* A CEnum arm that writes a word of pointer size whatever the width of the
\* discriminant.
eval_rvalue_Aggregate_CEnum_word(mem, dest, dest_layout, disr_val, operands) ==
    LET d == to_ptr(dest)
    IN  IF Len(operands) # 0 \/ d.res # "Ok" THEN [res |-> "panic", mem |-> mem]
        ELSE IF dest_layout.signed
             THEN write_int(mem, d.ptr, disr_val, PointerSize)
             ELSE write_uint(mem, d.ptr, disr_val, PointerSize)

\* The CEnum arm of the Aggregate arm of eval_rvalue_into_lvalue: disr_val
\* is the discriminant of the variant built, as a u64.
eval_rvalue_Aggregate_CEnum(mem, dest, dest_layout, disr_val, operands) ==
    LET d == to_ptr(dest)
    IN  IF Len(operands) # 0 \/ d.res # "Ok" THEN [res |-> "panic", mem |-> mem]
        ELSE IF dest_layout.signed
             THEN write_int(mem, d.ptr, disr_val, dest_layout.discr)
             ELSE write_uint(mem, d.ptr, disr_val, dest_layout.discr)

\* The Aggregate arm of eval_rvalue_into_lvalue for AggregateKind::Adt, with
\* the destination already resolved: variant is the variant built, disr_val
\* its discriminant as a u64.
eval_rvalue_Aggregate(mem, dest, dest_ty, variant, disr_val, operands) ==
    LET dest_layout == type_layout(dest_ty)
        d == to_ptr(dest)
    IN  CASE dest_layout.kind = "Univariant" ->
                assign_fields(<<>>, mem, dest, dest_layout.offsets, operands)
          [] dest_layout.kind = "General" ->
                IF d.res # "Ok" THEN [res |-> "panic", mem |-> mem]
                ELSE LET w == write_uint(mem,
                                  offset(d.ptr, dest_layout.variants[variant + 1][1]),
                                  disr_val, dest_layout.discr)
                     IN  IF w.res # "Ok" THEN w
                         ELSE assign_fields(<<>>, w.mem, dest,
                                  Tail(dest_layout.variants[variant + 1]), operands)
          [] dest_layout.kind = "RawNullablePointer" ->
                IF dest_layout.nndiscr = variant
                THEN IF Len(operands) # 1 THEN [res |-> "panic", mem |-> mem]
                     ELSE LET v == eval_operand(<<>>, mem, operands[1])
                          IN  IF v.res # "Ok" THEN [res |-> v.res, mem |-> mem]
                              ELSE write_value(mem, v.value, dest,
                                               operand_ty(<<>>, operands[1]))
                ELSE IF Len(operands) # 0 THEN [res |-> "panic", mem |-> mem]
                     ELSE write_primval(mem, dest, isize_primval(U64(0)))
          [] dest_layout.kind = "StructWrappedNullablePointer" ->
                IF dest_layout.nndiscr = variant
                THEN assign_fields(<<>>, mem, dest, dest_layout.nonnull, operands)
                ELSE IF \E i \in 1..Len(operands) :
                           type_size(operand_ty(<<>>, operands[i])) # 0
                     THEN [res |-> "panic", mem |-> mem]
                     ELSE LET o == nonnull_offset(dest_ty, dest_layout.nndiscr,
                                                  dest_layout.discrfield)
                          IN  IF o.res # "Ok" THEN [res |-> o.res, mem |-> mem]
                              ELSE IF d.res # "Ok" THEN [res |-> "panic", mem |-> mem]
                              ELSE write_isize(mem, offset(d.ptr, o.offset), U64(0))
          [] dest_layout.kind = "CEnum" ->
                eval_rvalue_Aggregate_CEnum(mem, dest, dest_layout, disr_val, operands)
          [] OTHER -> [res |-> "Unimplemented", mem |-> mem]

\* read_nonnull_discriminant_value: variant nndiscr when the word at ptr is
\* not null (a pointer, or a number other than 0), the other variant when
\* it is 0.
read_nonnull_discriminant_value(mem, ptr, nndiscr, discr_size) ==
    LET r == read_uint(mem, ptr, discr_size)
    IN  IF r.res = "ReadPointerAsBytes" THEN [res |-> "Ok", discr |-> U64(nndiscr)]
        ELSE IF r.res # "Ok" THEN [res |-> r.res, discr |-> U64(0)]
        ELSE IF r.n = U64(0) THEN [res |-> "Ok", discr |-> U64(1 - nndiscr)]
        ELSE [res |-> "Ok", discr |-> U64(nndiscr)]

\* read_discriminant_value: the discriminant of the value of type adt_ty at
\* adt_ptr, as a u64.
read_discriminant_value(mem, adt_ptr, adt_ty) ==
    LET adt_layout == type_layout(adt_ty)
    IN  CASE adt_layout.kind \in {"General", "CEnum"} ->
                LET r == read_uint(mem, adt_ptr, adt_layout.discr)
                IN  [res |-> r.res, discr |-> r.n]
          [] adt_layout.kind = "RawNullablePointer" ->
                read_nonnull_discriminant_value(mem, adt_ptr, adt_layout.nndiscr,
                                                adt_layout.value)
          [] adt_layout.kind = "StructWrappedNullablePointer" ->
                LET o == nonnull_offset(adt_ty, adt_layout.nndiscr, adt_layout.discrfield)
                IN  IF o.res # "Ok" THEN [res |-> o.res, discr |-> U64(0)]
                    ELSE read_nonnull_discriminant_value(mem, offset(adt_ptr, o.offset),
                             adt_layout.nndiscr, type_size(TyUsize))
          [] OTHER -> [res |-> "Ok", discr |-> U64(0)]


\* struct Wrapper { x: u16, p: &u8 }.
Wrapper ==
    TyAdtDef(Univariant(<<0, 2>>), 2 + PointerSize, <<<<TyUint(2), TyRef("u8")>>>>)

\* The fields of variant v of a two-variant enum whose variant nndiscr has
\* the fields tys and whose other variant has none.
NullableVariants(nndiscr, tys) == [v \in 1..2 |-> IF v = nndiscr + 1 THEN tys ELSE <<>>]

\* The two-variant enums with a null-pointer optimisation that are built,
\* with nn the index of the variant that has the pointer:
\*   enum { A(&u8), B }, enum { A(u16, &u8), B }, enum { A(&u8, u16), B },
\*   enum { A(Wrapper), B } and enum { A(&[u8]), B }.
NullableTypes ==
    UNION {{TyAdtDef(RawNullablePointer(nn, PointerSize), PointerSize,
                     NullableVariants(nn, <<TyRef("u8")>>)),
            TyAdtDef(StructWrappedNullablePointer(nn, <<0, 2>>, <<0, 1>>),
                     2 + PointerSize,
                     NullableVariants(nn, <<TyUint(2), TyRef("u8")>>)),
            TyAdtDef(StructWrappedNullablePointer(nn, <<0, PointerSize>>, <<0, 0>>),
                     PointerSize + 2,
                     NullableVariants(nn, <<TyRef("u8"), TyUint(2)>>)),
            TyAdtDef(StructWrappedNullablePointer(nn, <<0>>, <<0, 0, 1>>),
                     2 + PointerSize,
                     NullableVariants(nn, <<Wrapper>>)),
            TyAdtDef(StructWrappedNullablePointer(nn, <<0>>, <<0, 0, 0>>),
                     2 * PointerSize,
                     NullableVariants(nn, <<TyRef("slice")>>))} : nn \in {0, 1}}

\* The operands of type ty that a constructor is given: for u8 and u16 the
\* numbers 0 and 7, for a pointer the addresses examined, for Wrapper the value
\* stored in allocation 2.
OperandsOfType(ty) ==
    CASE ty.sty = "Uint" ->
            {Literal(ByVal(PrimInt(FALSE, int_ty_size(ty),
                                   [i \in 1..int_ty_size(ty) |-> IF i = 1 THEN n ELSE 0])),
                     ty) : n \in {0, 7}}
      [] ty = TyRef("u8") -> {Literal(ByVal(PrimPtr(p)), ty) : p \in PtrSamples}
      [] ty = TyRef("slice") ->
            {Literal(ByValPair(PrimPtr(p), PrimInt(FALSE, PointerSize,
                                                  [i \in 1..PointerSize |-> 0])), ty) :
                p \in PtrSamples}
      [] ty = Wrapper -> {Literal(ByRef(Pointer(2, 0)), ty)}
      [] OTHER -> {}

\* The sequences of operands, one of each of the types tys.
RECURSIVE OperandLists(_)
OperandLists(tys) ==
    IF tys = <<>> THEN {<<>>}
    ELSE {<<o>> \o rest : o \in OperandsOfType(Head(tys)), rest \in OperandLists(Tail(tys))}

\* The memory in which aggregates are built: allocation 1 is the
\* destination, undefined; allocation 2 holds Wrapper { x: 0, p: &allocation 1 }.
AggregateMemory ==
    LET m1 == Allocate(EmptyMemory, 2 + PointerSize, PointerSize).mem
        m2 == Allocate(m1, 2 + PointerSize, PointerSize).mem
        m3 == write_uint(m2, Pointer(2, 0), U64(0), 2).mem
    IN  write_ptr(m3, Pointer(2, 2), Pointer(1, 0)).mem

AggregateInit ==
    /\ stack = <<>>
    /\ memory = AggregateMemory
    /\ statics = <<>>
    /\ stack_limit = 1
    /\ step_limit = 0
    /\ pc = "values"
    /\ steps = 0
    /\ diags = <<>>
    /\ last = NoOp
    /\ entry_depth = <<>>
    /\ lv \in Dests
    /\ lvres = NoLvRes

\* A variant of a two-variant enum with a null-pointer optimisation is
\* built, and its discriminant is read (discriminant_value).
ConstructNullable ==
    /\ last.op = "none"
    /\ \E ty \in NullableTypes, variant \in {0, 1} :
       \E operands \in OperandLists(ty.variants[variant + 1]) :
          LET r == eval_rvalue_Aggregate(memory, lv, ty, variant, U64(variant), operands)
              d == read_discriminant_value(r.mem, lv.ptr, ty)
          IN  /\ memory' = r.mem
              /\ last' = [op |-> "nullable", res |-> r.res, ty |-> ty,
                          variant |-> variant, operands |-> operands,
                          dres |-> d.res, discr |-> d.discr]
    /\ UNCHANGED value_frame

\* The records and tagged unions that are built:
\*   struct { a: u8, b: u16 } in declaration order and with b placed first,
\*   Wrapper,
\*   enum { A(u8, u16), B(u16) } with a one-byte discriminant at offset 0,
\*   the same with its discriminant after the fields, at offset 3,
\*   enum { A(&u8), B(u8, u8) } with a two-byte discriminant.
ProductTypes ==
    {TyAdtDef(Univariant(<<0, 1>>), 3, <<<<TyUint(1), TyUint(2)>>>>),
     TyAdtDef(Univariant(<<2, 0>>), 3, <<<<TyUint(1), TyUint(2)>>>>),
     Wrapper,
     TyAdtDef(General(1, <<<<0, 1, 2>>, <<0, 2>>>>), 4,
              <<<<TyUint(1), TyUint(2)>>, <<TyUint(2)>>>>),
     TyAdtDef(General(1, <<<<3, 0, 1>>, <<3, 0>>>>), 4,
              <<<<TyUint(1), TyUint(2)>>, <<TyUint(2)>>>>),
     TyAdtDef(General(2, <<<<0, 2>>, <<0, 2, 3>>>>), 4,
              <<<<TyRef("u8")>>, <<TyUint(1), TyUint(1)>>>>)}

\* An aggregate is built for a variant of a record, of a tagged union or of
\* an enum with a null-pointer optimisation, and each of its fields is then
\* projected from the destination, through a downcast to the variant for
\* the enums.
ConstructProject ==
    /\ last.op = "none"
    /\ \E ty \in ProductTypes \cup NullableTypes :
       \E variant \in 0..(Len(ty.variants) - 1) :
       \E operands \in OperandLists(ty.variants[variant + 1]) :
          LET r    == eval_rvalue_Aggregate(memory, lv, ty, variant, U64(variant), operands)
              base == IF type_layout(ty).kind = "Univariant"
                      THEN [res |-> "Ok", lvalue |-> lv]
                      ELSE eval_lvalue_Downcast(lv, ty, variant)
              fields == [i \in 1..Len(operands) |->
                            IF base.res # "Ok" THEN [res |-> base.res, lvalue |-> NoLvalue]
                            ELSE eval_lvalue_Field(base.lvalue, ty, i - 1,
                                                   ty.variants[variant + 1][i])]
          IN  /\ memory' = r.mem
              /\ last' = [op |-> "project", res |-> r.res, ty |-> ty,
                          variant |-> variant, operands |-> operands,
                          fields |-> fields]
    /\ UNCHANGED value_frame

AggregateNext == ConstructNullable \/ ConstructProject

SpecAggregate == AggregateInit /\ [][AggregateNext]_vars

\* C16: after a variant of a two-variant enum with a RawNullablePointer or a
\* StructWrappedNullablePointer layout has been built, reading the
\* discriminant yields the index of that variant, for the variant with the
\* payload and for the empty one.
C16_NullableDiscriminant ==
    (last.op = "nullable" /\ last.res = "Ok") =>
       /\ last.dres = "Ok"
       /\ last.discr = U64(last.variant)

\* The bytes that storing the value of the operand op writes.
ValueBytes(op) ==
    BytesAt(write_value_to_ptr(AggregateMemory, op.value, Pointer(1, 0), op.ty).mem,
            Pointer(1, 0), type_size(op.ty))

\* The offsets of the n bytes at p.
Range(p, n) == {p.offset + j : j \in 0..(n - 1)}

\* The offsets of the bytes of the destination that are defined.
Written == {j \in 0..(Len(memory.allocs[1].bytes) - 1) : memory.allocs[1].bytes[j + 1] # Undef}

\* The variants of which the fields are projected: all of them for a record
\* and a tagged union, the one with the payload for a null-pointer
\* optimisation.
Projectable ==
    /\ last.op = "project"
    /\ last.res = "Ok"
    /\ type_layout(last.ty).kind \in {"RawNullablePointer", "StructWrappedNullablePointer"}
          => last.variant = type_layout(last.ty).nndiscr

\* C17: the bytes of operand i of an aggregate built for variant v are at
\* the address that projecting field i of the destination resolves to
\* (through a downcast to v for an enum), and nothing else is written but
\* the discriminant of a tagged union, which is at the entry 0 of the
\* offsets of the variant, field i being at entry i + 1.
C17_ConstructorProjectorAgree ==
    Projectable =>
       LET layout == type_layout(last.ty)
           n      == Len(last.operands)
           size(i) == type_size(last.operands[i].ty)
           tagged == layout.kind = "General"
           offs   == IF tagged THEN layout.variants[last.variant + 1] ELSE <<>>
       IN  /\ \A i \in 1..n :
                 /\ last.fields[i].res = "Ok"
                 /\ last.fields[i].lvalue.extra = ExtraNone
                 /\ InBounds(memory, last.fields[i].lvalue.ptr, size(i))
                 /\ BytesAt(memory, last.fields[i].lvalue.ptr, size(i))
                       = ValueBytes(last.operands[i])
                 /\ tagged => last.fields[i].lvalue.ptr = offset(lv.ptr, offs[i + 1])
           /\ tagged =>
                 BytesAt(memory, offset(lv.ptr, offs[1]), layout.discr)
                    = [j \in 1..layout.discr |-> Byte(U64(last.variant)[j])]
           /\ Written = UNION {Range(last.fields[i].lvalue.ptr, size(i)) : i \in 1..n}
                           \cup (IF tagged THEN Range(offset(lv.ptr, offs[1]), layout.discr)
                                 ELSE {})

\* Variant 0 of a tagged union whose discriminant is after the fields has
\* been built with two fields of different values, and both projected.
C17_Witness ==
    /\ Projectable
    /\ type_layout(last.ty).kind = "General"
    /\ type_layout(last.ty).variants[last.variant + 1] = <<3, 0, 1>>
    /\ Len(last.operands) = 2
    /\ last.operands[1].value.val.bytes[1] # last.operands[2].value.val.bytes[1]
    /\ \A i \in 1..2 : last.fields[i].res = "Ok"

----------------------------------------------------------------------------
\* Pure-discriminant enums: the construction of a variant and its reading.

\* The 8 bytes of the u64 that disr_val.to_u64_unchecked() returns for a
\* discriminant with the bytes bs: sign-extended when the discriminant is
\* signed, zero-extended when it is not.
ToU64(bs, signed) ==
    [i \in 1..8 |-> IF i <= Len(bs) THEN bs[i]
                    ELSE IF signed /\ bs[Len(bs)] >= 128 THEN 255 ELSE 0]

\* The enums without payload: a discriminant of 1, 2, 4 or 8 bytes, signed
\* or not.
CEnumTypes ==
    {TyAdtDef(CEnum(size, signed), size, <<<<>>>>) :
        size \in {1, 2, 4, 8}, signed \in BOOLEAN}

\* A variant of a pure-discriminant enum is built, and the destination is
\* read at the type of the enum.
ConstructCEnum ==
    /\ last.op = "none"
    /\ \E ty \in CEnumTypes :
       \E v \in IntSamples(ty.layout.signed, ty.layout.discr) :
          LET disr_val == ToU64(v.bytes, ty.layout.signed)
              w == eval_rvalue_Aggregate(memory, lv, ty, 0, disr_val, <<>>)
              r == read_value(w.mem, lv.ptr, ty)
          IN  /\ memory' = w.mem
              /\ last' = [op |-> "cenum", res |-> w.res, ty |-> ty,
                          disr_val |-> disr_val, rres |-> r.res, read |-> r.value]
    /\ UNCHANGED value_frame

CEnumNext == ConstructCEnum

SpecCEnum == ValueInit /\ [][CEnumNext]_vars

\* C18: building a variant of a pure-discriminant enum defines, of the
\* destination, the bytes of the discriminant and no other: as many as the
\* declared width, the least significant first; reading the destination at
\* the type of the enum yields an integer of that width and signedness
\* whose value is the discriminant.
C18_CEnumRoundTrip ==
    (last.op = "cenum" /\ last.res = "Ok") =>
       LET layout == type_layout(last.ty)
       IN  /\ Written = Range(lv.ptr, layout.discr)
           /\ BytesAt(memory, lv.ptr, layout.discr)
                 = [i \in 1..layout.discr |-> Byte(last.disr_val[i])]
           /\ last.rres = "Ok"
           /\ last.read.tag = "ByVal"
           /\ last.read.val.kind = "Int"
           /\ last.read.val.signed = layout.signed
           /\ last.read.val.size = layout.discr
           /\ ToU64(last.read.val.bytes, layout.signed) = last.disr_val

\* A negative discriminant of a signed two-byte enum has been written at an
\* address other than the start of the allocation and read back.
C18_Witness ==
    /\ last.op = "cenum"
    /\ last.res = "Ok"
    /\ last.rres = "Ok"
    /\ type_layout(last.ty).signed
    /\ type_layout(last.ty).discr = 2
    /\ last.disr_val[8] = 255
    /\ lv.ptr.offset > 0

----------------------------------------------------------------------------
\* Unsizing coercions.

\* A reference to [T; length].
TyRefArray(length) == [sty |-> "Ref", pointee |-> "array", length |-> length]

\* Value::read_ptr: the pointer that a value is, or that is stored where a
\* value by reference is.
value_read_ptr(mem, value) ==
    CASE value.tag = "ByRef" -> read_ptr(mem, value.ptr)
      [] value.tag = "ByVal" /\ value.val.kind = "Ptr" -> [res |-> "Ok", ptr |-> value.val.p]
      [] OTHER -> [res |-> "panic", ptr |-> NoPtr]

\* An unsizing that writes the length over the address.
unsize_into_over(mem, src, src_ty, dest, dest_ty) ==
    IF src_ty.sty = "Ref" /\ dest_ty.sty = "Ref"
       /\ src_ty.pointee = "array" /\ dest_ty.pointee = "slice"
    THEN LET ptr == value_read_ptr(mem, src)
             w   == write_ptr(mem, dest, ptr.ptr)
         IN  IF ptr.res # "Ok" THEN [res |-> ptr.res, mem |-> mem]
             ELSE IF w.res # "Ok" THEN w
             ELSE write_usize(w.mem, dest, AsU64(src_ty.length))
    ELSE [res |-> "panic", mem |-> mem]

\* EvalContext::unsize_into, for a pointer to an array that becomes a
\* pointer to a slice and for a pointer to a trait object that stays one.
unsize_into(mem, src, src_ty, dest, dest_ty) ==
    IF src_ty.sty = "Ref" /\ dest_ty.sty = "Ref"
    THEN CASE src_ty.pointee = "array" /\ dest_ty.pointee = "slice" ->
                 LET ptr == value_read_ptr(mem, src)
                     w   == write_ptr(mem, dest, ptr.ptr)
                     ptr_size   == PointerSize
                     dest_extra == offset(dest, ptr_size)
                 IN  IF ptr.res # "Ok" THEN [res |-> ptr.res, mem |-> mem]
                     ELSE IF w.res # "Ok" THEN w
                     ELSE write_usize(w.mem, dest_extra, AsU64(src_ty.length))
           [] src_ty.pointee = "trait" /\ dest_ty.pointee = "trait" ->
                 write_value_to_ptr(mem, src, dest, dest_ty)
           [] OTHER -> [res |-> "panic", mem |-> mem]
    ELSE [res |-> "panic", mem |-> mem]

\* The lengths of the arrays that are unsized.
ArrayLengths == 0..(MaxLen + 1) \cup {255, 256, 260}

\* The memory in which pointers are unsized: allocation 1 is the
\* destination, of two words, undefined; allocation 2 holds the pointer p.
UnsizeMemory(p) ==
    LET m1 == Allocate(EmptyMemory, 2 * PointerSize, PointerSize).mem
        m2 == Allocate(m1, PointerSize, PointerSize).mem
    IN  write_ptr(m2, Pointer(2, 0), p).mem

UnsizeInit ==
    /\ stack = <<>>
    /\ memory \in {UnsizeMemory(p) : p \in PtrSamples}
    /\ statics = <<>>
    /\ stack_limit = 1
    /\ step_limit = 0
    /\ pc = "values"
    /\ steps = 0
    /\ diags = <<>>
    /\ last = NoOp
    /\ entry_depth = <<>>
    /\ lv \in {Lvalue(Pointer(1, o), ExtraNone) : o \in {0, 1}}
    /\ lvres = NoLvRes

\* The sources of an unsizing: a pointer by value, the pointer stored in
\* allocation 2, and an integer, which is no pointer.
UnsizeSources ==
    {ByVal(PrimPtr(p)) : p \in PtrSamples} \cup {ByRef(Pointer(2, 0)), ByVal(PrimU8(0))}

\* The statement dest = Cast(Unsize, src, &[T]) with src of type
\* &[T; length].
UnsizeArray ==
    /\ last.op = "none"
    /\ \E src \in UnsizeSources, length \in ArrayLengths :
          LET r == unsize_into(memory, src, TyRefArray(length), lv.ptr, TyRef("slice"))
          IN  /\ memory' = r.mem
              /\ last' = [op |-> "unsize", res |-> r.res, src |-> src, length |-> length]
    /\ UNCHANGED value_frame

\* The statement dest = Cast(Unsize, src, &Trait2) with src of type &Trait1,
\* a pointer and its vtable.
UnsizeTrait ==
    /\ last.op = "none"
    /\ \E p \in PtrSamples, v \in PtrSamples :
          LET src == ByValPair(PrimPtr(p), PrimPtr(v))
              r == unsize_into(memory, src, TyRef("trait"), lv.ptr, TyRef("trait"))
          IN  /\ memory' = r.mem
              /\ last' = [op |-> "upcast", res |-> r.res, src |-> src, length |-> 0]
    /\ UNCHANGED value_frame

UnsizeNext == UnsizeArray \/ UnsizeTrait

SpecUnsize == UnsizeInit /\ [][UnsizeNext]_vars

\* The address that the source of the last unsizing is: the pointer itself,
\* or the pointer stored in allocation 2, which no unsizing writes.
SourceAddress ==
    IF last.src.tag = "ByVal" THEN last.src.val.p ELSE read_ptr(memory, last.src.ptr).ptr

\* C19: after a pointer to an array of length L has been unsized into a
\* pointer to a slice, the first word of the destination is the address of
\* the source and the second word, one pointer width after the first, is L.
C19_UnsizeArrayToSlice ==
    (last.op = "unsize" /\ last.res = "Ok") =>
       /\ read_ptr(memory, lv.ptr) = [res |-> "Ok", ptr |-> SourceAddress]
       /\ read_usize(memory, offset(lv.ptr, PointerSize))
             = [res |-> "Ok", n |-> AsU64(last.length)]

\* A pointer to an array of length 4, stored in memory, has been unsized:
\* the second word of the destination is 4.
C19_Witness ==
    /\ last.op = "unsize"
    /\ last.res = "Ok"
    /\ last.length = 4
    /\ last.src.tag = "ByRef"
    /\ read_usize(memory, offset(lv.ptr, PointerSize)).n = <<4, 0, 0, 0, 0, 0, 0, 0>>

----------------------------------------------------------------------------
\* The size and the alignment of a value whose type is not sized
\* (size_of_val, align_of_val).

\* [T].
TySliceOf(elem) == [sty |-> "Slice", elem |-> elem]

\* A trait object.
TyTrait == [sty |-> "Trait"]

\* struct { prefix: prefix_ty, tail: tail_ty } with tail_ty not sized: the
\* offsets of the two fields and the alignment the oracle reports.
TyDst(offsets, align, prefix_ty, tail_ty) ==
    [sty |-> "Adt", layout |-> Univariant(offsets), align |-> align,
     variants |-> <<<<prefix_ty, tail_ty>>>>]

\* EvalContext::type_is_sized, of a type.
ty_is_sized(ty) ==
    CASE ty.sty \in {"Slice", "Trait"} -> FALSE
      [] ty.sty = "Adt" -> ty.layout.kind # "Univariant" \/ ty.variants = <<>>
                           \/ ty.variants[1] = <<>>
                           \/ ~(ty.variants[1][Len(ty.variants[1])].sty
                                   \in {"Slice", "Trait", "Adt"})
      [] OTHER -> TRUE

\* The number that a usize is, from its bytes.
UsizeValue(n) == n[1] + 256 * n[2]

\* Value::expect_slice_len: the second word of a fat pointer, a length.
expect_slice_len(mem, value) ==
    IF value.tag = "ByValPair" /\ value.b.kind = "Int"
    THEN [res |-> "Ok", len |-> UsizeValue(value.b.bytes)]
    ELSE [res |-> "panic", len |-> 0]

\* Value::expect_vtable: the second word of a fat pointer, a vtable.
expect_vtable(mem, value) ==
    IF value.tag = "ByValPair" /\ value.b.kind = "Ptr"
    THEN [res |-> "Ok", ptr |-> value.b.p]
    ELSE [res |-> "panic", ptr |-> NoPtr]

\* a & b, for a and b natural numbers.
RECURSIVE BitAnd(_, _)
BitAnd(a, b) ==
    IF a = 0 \/ b = 0 THEN 0
    ELSE (a % 2) * (b % 2) + 2 * BitAnd(a \div 2, b \div 2)

Max(a, b) == IF a >= b THEN a ELSE b

DstOk(size, align) == [res |-> "Ok", size |-> size, align |-> align]

DstErr(e) == [res |-> e, size |-> 0, align |-> 0]

\* EvalContext::size_and_align_of_dst.
RECURSIVE size_and_align_of_dst(_, _, _)
size_and_align_of_dst(mem, ty, value) ==
    IF ty_is_sized(ty) THEN DstOk(type_size(ty), type_align(ty))
    ELSE CASE ty.sty = "Adt" ->
                 IF type_layout(ty).kind # "Univariant" THEN DstErr("panic")
                 ELSE LET offsets     == type_layout(ty).offsets
                          sized_size  == IF offsets = <<>> THEN 0 ELSE offsets[Len(offsets)]
                          sized_align == ty.align
                          field_ty    == ty.variants[1][Len(ty.variants[1])]
                          u     == size_and_align_of_dst(mem, field_ty, value)
                          size  == sized_size + u.size
                          align == Max(sized_align, u.align)
                      IN  IF u.res # "Ok" THEN u
                          ELSE IF BitAnd(size, align - 1) # 0
                               THEN DstOk(size + align, align)
                               ELSE DstOk(size, align)
           [] ty.sty = "Trait" ->
                 LET vtable == expect_vtable(mem, value)
                     size   == read_usize(mem, offset(vtable.ptr, PointerSize))
                     align  == read_usize(mem, offset(vtable.ptr, PointerSize * 2))
                 IN  IF vtable.res # "Ok" THEN DstErr(vtable.res)
                     ELSE IF size.res # "Ok" THEN DstErr(size.res)
                     ELSE IF align.res # "Ok" THEN DstErr(align.res)
                     ELSE DstOk(UsizeValue(size.n), UsizeValue(align.n))
           [] ty.sty = "Slice" ->
                 LET len == expect_slice_len(mem, value)
                 IN  IF len.res # "Ok" THEN DstErr(len.res)
                     ELSE DstOk(len.len * type_size(ty.elem), type_align(ty.elem))
           [] OTHER -> DstErr("panic")

\* The sizes and alignments that a vtable holds: the size of a type is a
\* multiple of its alignment.
VtableEntries ==
    {<<0, 1>>, <<1, 1>>, <<2, 1>>, <<3, 1>>, <<0, 2>>, <<2, 2>>, <<4, 2>>, <<6, 2>>,
     <<0, 4>>, <<4, 4>>}

\* The memory in which sizes are computed: allocation 1 is a vtable, three
\* words, the second the size and the third the alignment of the type.
DstMemory(e) ==
    LET m1 == Allocate(EmptyMemory, 3 * PointerSize, PointerSize).mem
        m2 == write_usize(m1, Pointer(1, 0), AsU64(0)).mem
        m3 == write_usize(m2, Pointer(1, PointerSize), AsU64(e[1])).mem
    IN  write_usize(m3, Pointer(1, 2 * PointerSize), AsU64(e[2])).mem

DstInit ==
    /\ stack = <<>>
    /\ memory \in {DstMemory(e) : e \in VtableEntries}
    /\ statics = <<>>
    /\ stack_limit = 1
    /\ step_limit = 0
    /\ pc = "values"
    /\ steps = 0
    /\ diags = <<>>
    /\ last = NoOp
    /\ entry_depth = <<>>
    /\ lv = Lvalue(Pointer(1, 0), ExtraNone)
    /\ lvres = NoLvRes

\* The tails that are not sized: [u8], [u16], a trait object and
\* struct { a: u8, tail: [u8] }.
DstTails ==
    {TySliceOf(TyUint(1)), TySliceOf(TyUint(2)), TyTrait,
     TyDst(<<0, 1>>, 1, TyUint(1), TySliceOf(TyUint(1)))}

\* The alignment that the oracle reports for a tail, 1 for one known only by
\* its vtable.
TailAlign(tail) ==
    CASE tail.sty = "Slice" -> type_align(tail.elem)
      [] tail.sty = "Adt" -> tail.align
      [] OTHER -> 1

\* The records with a tail that is not sized: after a prefix u8, u16 or
\* u32, the tail at the offset that its alignment asks for.
DstTypes ==
    {TyDst(<<0, Max(size, TailAlign(tail))>>, Max(size, TailAlign(tail)),
           TyUint(size), tail) :
        size \in {1, 2, 4}, tail \in DstTails}

\* The fat pointers to such values: a length, or the vtable of allocation 1.
DstValues(ty) ==
    LET tail == ty.variants[1][2]
        deep == IF tail.sty = "Adt" THEN tail.variants[1][2] ELSE tail
    IN  IF deep.sty = "Trait"
        THEN {ByValPair(PrimPtr(Pointer(1, 0)), PrimPtr(Pointer(1, 0)))}
        ELSE {ByValPair(PrimPtr(Pointer(1, 0)),
                        PrimInt(FALSE, PointerSize, SubSeq(AsU64(n), 1, PointerSize))) :
                 n \in 0..MaxLen}

\* The intrinsic size_of_val on a record with a tail that is not sized.
SizeOfVal ==
    /\ last.op = "none"
    /\ \E ty \in DstTypes :
       \E value \in DstValues(ty) :
          LET r == size_and_align_of_dst(memory, ty, value)
          IN  last' = [op |-> "size_of_val", res |-> r.res, ty |-> ty, value |-> value,
                       size |-> r.size, align |-> r.align]
    /\ UNCHANGED <<memory, value_frame>>

DstNext == SizeOfVal

SpecDst == DstInit /\ [][DstNext]_vars

\* C20: the size computed for a record whose tail is not sized is the
\* smallest multiple of A that is at least P + T, and the alignment
\* computed is A: P is the offset of the tail, T the size computed for the
\* tail and A the larger of the alignment of the record and of the one
\* computed for the tail.
C20_DstSizeRoundedUp ==
    (last.op = "size_of_val" /\ last.res = "Ok") =>
       LET offsets == type_layout(last.ty).offsets
           tail == size_and_align_of_dst(memory, last.ty.variants[1][2], last.value)
           P == offsets[Len(offsets)]
           T == tail.size
           A == Max(last.ty.align, tail.align)
       IN  /\ last.align = A
           /\ last.size % A = 0
           /\ last.size >= P + T
           /\ last.size < P + T + A

----------------------------------------------------------------------------
\* The intrinsics: call_intrinsic with its destination.

\* mir::Operand::Constant of a string literal, by the bytes of the string.
Str(bytes) == [kind |-> "Str", bytes |-> bytes]

\* EvalContext::str_to_value: the string is stored in a new allocation,
\* which is frozen; the value is the fat pointer to it.
str_to_value(mem, bytes) ==
    LET a == Allocate(mem, Len(bytes), 1)
        w == WriteBytes(a.mem, a.ptr, [i \in 1..Len(bytes) |-> Byte(bytes[i])])
        f == Freeze(w.mem, a.ptr.alloc_id)
    IN  IF a.res # "Ok" THEN [res |-> a.res, value |-> NoValue, mem |-> mem]
        ELSE IF w.res # "Ok" THEN [res |-> w.res, value |-> NoValue, mem |-> w.mem]
        ELSE IF f.res # "Ok" THEN [res |-> f.res, value |-> NoValue, mem |-> f.mem]
        ELSE [res   |-> "Ok",
              value |-> ByValPair(PrimPtr(a.ptr), usize_primval(AsU64(Len(bytes)))),
              mem   |-> f.mem]

\* EvalContext::eval_operand with the memory it leaves: a string literal
\* allocates, the other operands do not.
eval_operand_mem(stk, mem, op) ==
    IF op.kind = "Str" THEN str_to_value(mem, op.bytes)
    ELSE LET v == eval_operand(stk, mem, op)
         IN  [res |-> v.res, value |-> v.value, mem |-> mem]

\* The collect() of call_intrinsic over its arguments: the values of the
\* arguments in order; the first error ends it, and what the arguments
\* before it allocated stays. v is what the first of args evaluated to.
RECURSIVE args_ptrs(_, _, _, _)
args_ptrs_next(stk, v, args, acc) ==
    IF v.res # "Ok" THEN [res |-> v.res, values |-> acc, mem |-> v.mem]
    ELSE args_ptrs(stk, v.mem, Tail(args), Append(acc, v.value))

args_ptrs(stk, mem, args, acc) ==
    IF args = <<>> THEN [res |-> "Ok", values |-> acc, mem |-> mem]
    ELSE args_ptrs_next(stk, eval_operand_mem(stk, mem, Head(args)), args, acc)

\* The arm ByRef of value_to_primval, from what read_value returned.
value_to_primval_read(r) ==
    IF r.res # "Ok" THEN [res |-> r.res, val |-> NoPrim]
    ELSE IF r.value.tag # "ByVal" THEN [res |-> "panic", val |-> NoPrim]
    ELSE [res |-> "Ok", val |-> r.value.val]

\* EvalContext::value_to_primval.
value_to_primval(mem, value, ty) ==
    CASE value.tag = "ByRef" -> value_to_primval_read(read_value(mem, value.ptr, ty))
      [] value.tag = "ByVal" -> [res |-> "Ok", val |-> value.val]
      [] OTHER -> [res |-> "panic", val |-> NoPrim]

\* The names that call_intrinsic matches.
IntrinsicNames ==
    {"add_with_overflow", "sub_with_overflow", "mul_with_overflow", "arith_offset",
     "assume", "breakpoint", "copy", "copy_nonoverlapping", "ctpop", "cttz", "ctlz",
     "bswap", "discriminant_value", "fabsf32", "fabsf64", "fadd_fast", "likely",
     "unlikely", "forget", "init", "min_align_of", "pref_align_of", "move_val_init",
     "needs_drop", "offset", "overflowing_sub", "overflowing_mul", "overflowing_add",
     "powif32", "powif64", "sqrtf32", "sqrtf64", "size_of", "size_of_val",
     "type_name", "type_id", "transmute", "uninit", "volatile_load",
     "volatile_store"}

\* The outcome of an intrinsic: msg is the message of an Unimplemented
\* error, in its parts.
IntrinsicResult(res, mem) == [res |-> res, msg |-> <<>>, mem |-> mem]

\* The outcome of an arm that ends with the write w.
IntrinsicWritten(w) == IntrinsicResult(w.res, w.mem)

\* A fallthrough arm that succeeds.
unimplemented_intrinsic_silent(name, mem) == IntrinsicResult("Ok", mem)

\* The fallthrough arm of call_intrinsic.
unimplemented_intrinsic(name, mem) ==
    [res |-> "Unimplemented", msg |-> <<"unimplemented intrinsic: ", name>>, mem |-> mem]

\* An arm that fills the destination with zeroes, as the arm of init does.
likely_init(mem, dest) ==
    IF to_ptr(dest).res # "Ok" THEN IntrinsicResult("panic", mem)
    ELSE IntrinsicWritten(
             WriteBytes(mem, dest.ptr,
                        [i \in 1..Len(mem.allocs[dest.ptr.alloc_id].bytes) |-> Byte(0)]))

\* The arm of likely, unlikely and forget.
likely(mem, dest) == IntrinsicResult("Ok", mem)

\* The absolute value of a float whose value is an integer, and the square
\* root of one whose value is the square of an integer.
FloatAbs(v) == IF v < 0 THEN 0 - v ELSE v

FloatSqrt(v) == CHOOSE r \in 0..4 : r * r = v

\* The float operand f of an arm of size bytes, as expect_f32 and
\* expect_f64 take it, and the write of result(f) to the destination.
FloatArm(mem, f, dest, size, abs) ==
    IF f.res # "Ok" THEN IntrinsicResult(f.res, mem)
    ELSE IF f.val.kind # "Float" \/ f.val.size # size THEN IntrinsicResult("panic", mem)
    ELSE IntrinsicWritten(
             write_primval(mem, dest,
                           PrimFloat(size, IF abs THEN FloatAbs(f.val.v)
                                                  ELSE FloatSqrt(f.val.v))))

\* The arms fabsf32 and fabsf64: the operand is the argument at index 2.
fabsf(mem, values, dest, size) ==
    IF Len(values) < 3 THEN IntrinsicResult("panic", mem)
    ELSE FloatArm(mem, value_to_primval(mem, values[2 + 1], TyFloat(size)), dest, size, TRUE)

\* The arms sqrtf32 and sqrtf64: the operand is the argument at index 0.
sqrtf(mem, values, dest, size) ==
    IF Len(values) < 1 THEN IntrinsicResult("panic", mem)
    ELSE FloatArm(mem, value_to_primval(mem, values[0 + 1], TyFloat(size)), dest, size, FALSE)

\* The end of the arm fadd_fast: the write of what binary_op returned.
fadd_fast_result(mem, result, dest) ==
    IF result.res # "Ok" THEN IntrinsicResult(result.res, mem)
    ELSE IntrinsicWritten(write_primval(mem, dest, result.val))

\* The arm fadd_fast from its operands a and b.
fadd_fast_operands(mem, a, b, dest) ==
    IF a.res # "Ok" THEN IntrinsicResult(a.res, mem)
    ELSE IF b.res # "Ok" THEN IntrinsicResult(b.res, mem)
    ELSE fadd_fast_result(mem, binary_op("Add", a.val, b.val), dest)

\* The arm fadd_fast: both operands are the argument at index 0.
fadd_fast(mem, substs, values, dest) ==
    IF Len(substs) < 1 \/ Len(values) < 1 THEN IntrinsicResult("panic", mem)
    ELSE fadd_fast_operands(mem,
                            value_to_primval(mem, values[0 + 1], substs[0 + 1]),
                            value_to_primval(mem, values[0 + 1], substs[0 + 1]),
                            dest)

\* The arm transmute: the type written is substs.type_at(0).
transmute(mem, substs, values, dest) ==
    IF Len(substs) < 1 \/ Len(values) < 1 THEN IntrinsicResult("panic", mem)
    ELSE IntrinsicWritten(write_value(mem, values[0 + 1], dest, substs[0 + 1]))

\* The match of call_intrinsic on the name, from the values a.values of the
\* arguments, for the names that are not in its table and for the arms
\* likely, unlikely, forget, fabsf32, fabsf64, sqrtf32, sqrtf64, fadd_fast
\* and transmute.
call_intrinsic_match(a, name, substs, dest) ==
    CASE name \notin IntrinsicNames -> unimplemented_intrinsic(name, a.mem)
      [] name \in NoOpIntrinsics -> likely(a.mem, dest)
      [] name \in {"fabsf32", "fabsf64"} ->
            fabsf(a.mem, a.values, dest, IF name = "fabsf32" THEN 4 ELSE 8)
      [] name \in {"sqrtf32", "sqrtf64"} ->
            sqrtf(a.mem, a.values, dest, IF name = "sqrtf32" THEN 4 ELSE 8)
      [] name = "fadd_fast" -> fadd_fast(a.mem, substs, a.values, dest)
      [] name = "transmute" -> transmute(a.mem, substs, a.values, dest)
      [] OTHER -> IntrinsicResult("ArmNotExamined", a.mem)

\* What call_intrinsic returns: the error a.res of the evaluation of the
\* arguments, or what the arm r of the name returned; args_res is the
\* outcome of the evaluation of the arguments.
call_intrinsic_return(a, r) ==
    IF a.res # "Ok"
    THEN [res |-> a.res, msg |-> <<>>, mem |-> a.mem, args_res |-> a.res]
    ELSE [res |-> r.res, msg |-> r.msg, mem |-> r.mem, args_res |-> "Ok"]

\* call_intrinsic from the outcome a of the evaluation of the arguments.
call_intrinsic_args(a, name, substs, dest) ==
    call_intrinsic_return(a, call_intrinsic_match(a, name, substs, dest))

\* EvalContext::call_intrinsic with its destination.
call_intrinsic_dest(stk, mem, name, substs, args, dest) ==
    call_intrinsic_args(args_ptrs(stk, mem, args, <<>>), name, substs, dest)

\* The types of the destinations: u16, (u8, u8), f32 and f64.
IntrinsicDestTypes == {TyUint(2), TyPair, TyFloat(4), TyFloat(8)}

\* The values that an argument passed by reference holds: a u16, a
\* (u8, u8), an f32, and a u16 that was never written.
IntrinsicSources ==
    {[ty |-> TyUint(2), bytes |-> <<1, 2>>],
     [ty |-> TyPair, bytes |-> <<3, 4>>],
     [ty |-> TyUint(2), bytes |-> <<>>]}
    \cup {[ty |-> TyFloat(4), bytes |-> FloatBytes(4, v)] : v \in {4, 9}}

\* Allocation 1 is the destination, allocated for dest_ty as
\* push_stack_frame allocates a local; allocation 2 holds src.
IntrinsicMemory(dest_ty, src) ==
    LET d == Allocate(EmptyMemory, type_size(dest_ty), type_align(dest_ty))
        a == Allocate(d.mem, type_size(src.ty), type_align(src.ty))
    IN  WriteBytes(a.mem, a.ptr, [i \in 1..Len(src.bytes) |-> Byte(src.bytes[i])]).mem

\* A frame whose return local is the destination calls the intrinsic.
IntrinsicInit ==
    /\ stack = <<Frame("caller", START_BLOCK, CleanupNone, <<Pointer(1, 0)>>, 0)>>
    /\ \E dest_ty \in IntrinsicDestTypes :
       \E src \in IntrinsicSources :
          /\ type_size(dest_ty) + type_size(src.ty) <= MemorySize
          /\ memory = IntrinsicMemory(dest_ty, src)
    /\ statics = <<>>
    /\ stack_limit = 2
    /\ step_limit = 0
    /\ pc = "values"
    /\ steps = 0
    /\ diags = <<>>
    /\ last = NoOp
    /\ entry_depth = <<0>>
    /\ lv = Lvalue(Pointer(1, 0), ExtraNone)
    /\ lvres = NoLvRes

\* The operands of the calls: the place of allocation 2 at each type it may
\* hold, floats and a u16 by value, and string literals of one and of two
\* bytes.
IntrinsicFloats == {-4, 0, 1, 2, 4, 9}

IntrinsicOperands ==
    {Literal(ByRef(Pointer(2, 0)), ty) : ty \in {TyUint(2), TyPair, TyFloat(4)}}
    \cup {Literal(ByVal(PrimFloat(size, v)), TyFloat(size)) :
             size \in {4, 8}, v \in IntrinsicFloats}
    \cup {Literal(ByVal(PrimInt(FALSE, 2, <<5, 6>>)), TyUint(2))}
    \cup {Str(<<97>>), Str(<<97, 98>>)}

\* The arguments of the calls that read none of them: the operands, and
\* the dereference of the return local, which holds no pointer yet.
IntrinsicArguments == IntrinsicOperands \cup {Consume(Deref(Local(0)))}

\* The type of an argument of a call.
IntrinsicOperandTy(op) ==
    CASE op.kind = "Str" -> TyRef("str")
      [] op.kind = "Literal" -> op.ty
      [] OTHER -> TyU8

\* The destination has the size and the alignment of ty.
DestFor(ty) ==
    /\ Len(memory.allocs[1].bytes) = type_size(ty)
    /\ memory.allocs[1].align = type_align(ty)

\* An argument passed by reference has the type that allocation 2 was
\* allocated for.
WellTyped(op) ==
    (op.kind = "Literal" /\ op.value.tag = "ByRef")
       => /\ Len(memory.allocs[2].bytes) = type_size(op.ty)
          /\ memory.allocs[2].align = type_align(op.ty)

\* The state after a call of call_intrinsic that returned r.
Called(r, name, substs, args) ==
    /\ memory' = r.mem
    /\ last' = [op |-> "intrinsic", res |-> r.res, name |-> name,
                substs |-> substs, args |-> args, msg |-> r.msg,
                args_res |-> r.args_res]

\* One call of call_intrinsic.
Call(name, substs, args) ==
    /\ last.op = "none"
    /\ \A i \in 1..Len(args) : WellTyped(args[i])
    /\ Called(call_intrinsic_dest(stack, memory, name, substs, args, lv),
              name, substs, args)
    /\ UNCHANGED value_frame

\* A call of a name that call_intrinsic has no arm for, with up to two
\* arguments.
CallUnknown ==
    \E name \in {"frobnicate", "fmaf32", "atomic_load"} :
    \E args \in {<<>>} \cup {<<a>> : a \in IntrinsicArguments}
                \cup {<<a, b>> : a \in IntrinsicArguments,
                                 b \in {Str(<<97>>), Str(<<97, 98>>)}} :
       Call(name, <<>>, args)

\* likely, unlikely and forget, with their argument.
CallNoOp ==
    \E name \in NoOpIntrinsics :
    \E a \in IntrinsicArguments :
       Call(name, <<IntrinsicOperandTy(a)>>, <<a>>)

\* transmute::<T, U> of a T into a destination allocated for a U of the
\* same size.
CallTransmute ==
    \E a \in IntrinsicOperands :
    \E U \in IntrinsicDestTypes :
       /\ a.kind # "Str"
       /\ type_size(U) = type_size(a.ty)
       /\ DestFor(U)
       /\ Call("transmute", <<a.ty, U>>, <<a>>)

\* sqrtf32, sqrtf64, fabsf32 and fabsf64 of a float into a destination of
\* its type; the square root is taken of the squares only.
CallFloatUnary ==
    \E size \in {4, 8} :
    \E name \in {"sqrtf", "fabsf"} :
    \E a \in IntrinsicOperands :
       /\ a.kind # "Str"
       /\ a.ty = TyFloat(size)
       /\ DestFor(a.ty)
       /\ (name = "sqrtf" /\ a.value.tag = "ByVal") => a.value.val.v \in {0, 1, 4, 9}
       /\ Call(IF size = 4 THEN (IF name = "sqrtf" THEN "sqrtf32" ELSE "fabsf32")
                           ELSE (IF name = "sqrtf" THEN "sqrtf64" ELSE "fabsf64"),
               <<>>, <<a>>)

\* fadd_fast::<T> of two floats of type T into a destination of type T.
CallFaddFast ==
    \E a, b \in IntrinsicOperands :
       /\ a.kind # "Str" /\ b.kind # "Str"
       /\ a.ty.sty = "Float" /\ b.ty = a.ty
       /\ DestFor(a.ty)
       /\ Call("fadd_fast", <<a.ty>>, <<a, b>>)

IntrinsicNext ==
    CallUnknown \/ CallNoOp \/ CallTransmute \/ CallFloatUnary \/ CallFaddFast

SpecIntrinsic == IntrinsicInit /\ [][IntrinsicNext]_vars

\* The message of the last call names the intrinsic.
MessageNames(l) == \E i \in 1..Len(l.msg) : l.msg[i] = l.name

\* C21 as stated: a call of a name that call_intrinsic has no arm for
\* returns the Unimplemented error whose message names the intrinsic, and
\* writes nothing to the destination.
C21_UnknownIsUnimplemented ==
    [][(last'.op = "intrinsic" /\ last'.name \notin IntrinsicNames)
       => /\ last'.res = "Unimplemented"
          /\ MessageNames(last')
          /\ memory'.allocs[1] = memory.allocs[1]]_vars

\* C21, amended: a call of a name that call_intrinsic has no arm for
\* evaluates its arguments first; when one of them fails the call returns
\* that error, otherwise it returns the Unimplemented error whose message
\* names the intrinsic; in both cases it fails and writes nothing to the
\* destination.
C21_UnknownNeverWrites ==
    [][(last'.op = "intrinsic" /\ last'.name \notin IntrinsicNames)
       => /\ last'.res # "Ok"
          /\ last'.args_res # "Ok" => last'.res = last'.args_res
          /\ last'.args_res = "Ok" => (last'.res = "Unimplemented" /\ MessageNames(last'))
          /\ memory'.allocs[1] = memory.allocs[1]]_vars

\* fmaf32, for which there is no arm, was called with a string literal that
\* was allocated, and the call returned the Unimplemented error that names
\* fmaf32.
C21_Witness ==
    /\ last.op = "intrinsic"
    /\ last.name = "fmaf32"
    /\ last.args = <<Str(<<97>>)>>
    /\ Len(memory.allocs) = 3
    /\ last.res = "Unimplemented"
    /\ MessageNames(last)

\* C22 as stated: likely, unlikely and forget never fail: for any arguments
\* they return success and leave the destination, the memory and the call
\* stack unchanged.
C22_NoOpNeverFails ==
    [][(last'.op = "intrinsic" /\ last'.name \in NoOpIntrinsics)
       => /\ last'.res = "Ok"
          /\ memory' = memory
          /\ stack' = stack]_vars

\* C22, amended: likely, unlikely and forget evaluate their arguments and
\* do nothing else: they return what the evaluation of the arguments
\* returns, success when it succeeds; the destination, the call stack and
\* every allocation that existed are unchanged, and the memory changes only
\* by the allocations made for the arguments.
C22_NoOpOnlyEvaluatesArguments ==
    [][(last'.op = "intrinsic" /\ last'.name \in NoOpIntrinsics)
       => /\ last'.res = last'.args_res
          /\ stack' = stack
          /\ Len(memory'.allocs) >= Len(memory.allocs)
          /\ \A a \in 1..Len(memory.allocs) : memory'.allocs[a] = memory.allocs[a]
          /\ (\A i \in 1..Len(last'.args) : last'.args[i].kind # "Str")
                => memory' = memory]_vars

\* forget was called with a string literal of two bytes: it succeeded, and
\* the memory holds the allocation of the literal.
C22_Witness ==
    /\ last.op = "intrinsic"
    /\ last.name = "forget"
    /\ last.args = <<Str(<<97, 98>>)>>
    /\ last.res = "Ok"
    /\ Len(memory.allocs) = 3
    /\ memory.allocs[3].frozen

\* C23: transmute::<T, U> writes its argument to the destination by the
\* rules of the destination type U, its size and its alignment: the call
\* returns what the write of the argument at type U returns and leaves the
\* memory that this write leaves.
C23_TransmuteWritesAtDestinationType ==
    [][(last'.op = "intrinsic" /\ last'.name = "transmute")
       => LET w == write_value(memory, last'.args[1].value, lv, last'.substs[2])
          IN  /\ last'.res = w.res
              /\ memory' = w.mem]_vars

\* The float that the destination holds, as the read of the destination at
\* the type of the first argument of the last call returns it.
DestFloat == read_value(memory, lv.ptr, IntrinsicOperandTy(last.args[1]))

\* The float that an argument of the last call holds.
ArgFloat(i) ==
    value_to_primval(memory, last.args[i].value, IntrinsicOperandTy(last.args[i])).val.v

\* C29: a call of fadd_fast that succeeds leaves in the destination the sum
\* of its first and of its second argument.
C29_FaddFastAddsBothArguments ==
    (last.op = "intrinsic" /\ last.name = "fadd_fast" /\ last.res = "Ok")
       => /\ DestFloat.res = "Ok"
          /\ DestFloat.value.val.v = ArgFloat(1) + ArgFloat(2)

\* C30: sqrtf32, sqrtf64, fabsf32 and fabsf64, called with one argument
\* that is a float of their type, succeed and leave a float in the
\* destination: the square root and the absolute value of the argument.
C30_FloatUnaryUsesItsArgument ==
    (last.op = "intrinsic" /\ last.name \in {"sqrtf32", "sqrtf64", "fabsf32", "fabsf64"}
        /\ Len(last.args) = 1)
       => /\ last.res = "Ok"
          /\ DestFloat.res = "Ok"
          /\ last.name \in {"fabsf32", "fabsf64"}
                => DestFloat.value.val.v = FloatAbs(ArgFloat(1))
          /\ last.name \in {"sqrtf32", "sqrtf64"}
                => DestFloat.value.val.v * DestFloat.value.val.v = ArgFloat(1)

----------------------------------------------------------------------------
\* References: Rvalue::Ref and ProjectionElem::Deref.

\* A dereference that drops the second word.
eval_lvalue_Deref_thin(mem, base, base_ty) ==
    LET r == read_value(mem, base.ptr, base_ty)
    IN  IF r.res # "Ok" THEN [res |-> r.res, lvalue |-> from_ptr(NoPtr)]
        ELSE IF r.value.tag = "ByValPair" /\ r.value.a.kind = "Ptr"
             THEN [res |-> "Ok", lvalue |-> Lvalue(r.value.a.p, ExtraNone)]
        ELSE IF r.value.tag = "ByVal" /\ r.value.val.kind = "Ptr"
             THEN [res |-> "Ok", lvalue |-> Lvalue(r.value.val.p, ExtraNone)]
        ELSE [res |-> "panic", lvalue |-> from_ptr(NoPtr)]

\* The arm Deref of eval_lvalue, from the place that the base was evaluated
\* to and the type of the base.
eval_lvalue_Deref(mem, base, base_ty) ==
    LET r == read_value(mem, base.ptr, base_ty)
    IN  IF r.res # "Ok" THEN [res |-> r.res, lvalue |-> from_ptr(NoPtr)]
        ELSE IF r.value.tag = "ByValPair" /\ r.value.a.kind = "Ptr"
             THEN IF r.value.b.kind = "Ptr"
                  THEN [res |-> "Ok",
                        lvalue |-> Lvalue(r.value.a.p, ExtraVtable(r.value.b.p))]
                  ELSE IF r.value.b.kind = "Int" /\ ~r.value.b.signed
                  THEN [res |-> "Ok",
                        lvalue |-> Lvalue(r.value.a.p,
                                          ExtraLength(UsizeValue(r.value.b.bytes)))]
                  ELSE [res |-> "panic", lvalue |-> from_ptr(NoPtr)]
        ELSE IF r.value.tag = "ByVal" /\ r.value.val.kind = "Ptr"
             THEN [res |-> "Ok", lvalue |-> Lvalue(r.value.val.p, ExtraNone)]
        ELSE [res |-> "panic", lvalue |-> from_ptr(NoPtr)]

\* Allocation 1 has room for three words, and holds the destinations of
\* the references; allocation 2 is the referent.
RefMemory ==
    Allocate(Allocate(EmptyMemory, 3 * PointerSize, PointerSize).mem, 2, 1).mem

RefInit ==
    /\ stack = <<>>
    /\ memory = RefMemory
    /\ statics = <<>>
    /\ stack_limit = 1
    /\ step_limit = 0
    /\ pc = "references"
    /\ steps = 0
    /\ diags = <<>>
    /\ last = NoOp
    /\ entry_depth = <<>>
    /\ lv \in Lvalues
    /\ lvres = NoLvRes

\* The reference to the place is written to a destination, at the first or
\* at the second word of allocation 1.
RefOf ==
    /\ last.op = "none"
    /\ \E dest \in {from_ptr(Pointer(1, 0)), from_ptr(Pointer(1, PointerSize))} :
          LET r == eval_rvalue_Ref(memory, dest, lv)
          IN  /\ memory' = r.mem
              /\ last' = [op |-> "ref", res |-> r.res, dest |-> dest]
    /\ UNCHANGED value_frame

\* The types of the pointers that carry the metadata of a place.
PointerTypes(extra) ==
    CASE extra.tag = "None" -> {TyRef("u8")}
      [] extra.tag = "Length" -> {TyRef("slice"), TyRef("str")}
      [] extra.tag = "Vtable" -> {TyRef("trait")}
      [] OTHER -> {}

\* The reference that was written is dereferenced, at a pointer type that
\* matches the place.
DerefWritten ==
    /\ last.op = "ref" /\ last.res = "Ok"
    /\ lvres.op = "none"
    /\ \E ty \in PointerTypes(lv.extra) :
          lvres' = [op |-> "deref", ty |-> ty,
                    r |-> eval_lvalue_Deref(memory, last.dest, ty)]
    /\ UNCHANGED <<lv, driver_vars>>

RefNext == RefOf \/ DerefWritten

SpecRef == RefInit /\ [][RefNext]_vars

\* The bytes of allocation 1 outside the n bytes at dest.
Elsewhere(mem, dest, n) ==
    [i \in 1..Len(mem.allocs[1].bytes) |->
        IF i - 1 \in dest.ptr.offset..(dest.ptr.offset + n - 1)
        THEN Undef ELSE mem.allocs[1].bytes[i]]

\* C24: a reference writes the address of the referent as the first word
\* of the destination; when the referent carries a length or a vtable it
\* writes that word one pointer width after the first; when it carries no
\* metadata it writes nothing else; when it carries a variant the
\* evaluation aborts.
C24_RefWritesAddressAndMetadata ==
    [][last'.op = "ref"
       => LET dest  == last'.dest
              first == read_ptr(memory', dest.ptr)
              extra == offset(dest.ptr, PointerSize)
          IN  CASE lv.extra.tag = "DowncastVariant" -> last'.res = "panic"
                [] lv.extra.tag = "None" ->
                      /\ last'.res = "Ok"
                      /\ first.res = "Ok" /\ first.ptr = lv.ptr
                      /\ Elsewhere(memory', dest, PointerSize)
                            = Elsewhere(memory, dest, PointerSize)
                [] lv.extra.tag = "Length" ->
                      /\ last'.res = "Ok"
                      /\ first.res = "Ok" /\ first.ptr = lv.ptr
                      /\ read_usize(memory', extra).res = "Ok"
                      /\ UsizeValue(read_usize(memory', extra).n) = lv.extra.len
                      /\ Elsewhere(memory', dest, 2 * PointerSize)
                            = Elsewhere(memory, dest, 2 * PointerSize)
                [] lv.extra.tag = "Vtable" ->
                      /\ last'.res = "Ok"
                      /\ first.res = "Ok" /\ first.ptr = lv.ptr
                      /\ read_ptr(memory', extra).res = "Ok"
                      /\ read_ptr(memory', extra).ptr = lv.extra.vtable
                      /\ Elsewhere(memory', dest, 2 * PointerSize)
                            = Elsewhere(memory, dest, 2 * PointerSize)]_vars

\* The reference to a place of three elements was written at the second
\* word of allocation 1: the third word holds the length 3, and the first
\* word was not written.
C24_Witness ==
    /\ last.op = "ref" /\ last.res = "Ok"
    /\ last.dest.ptr = Pointer(1, PointerSize)
    /\ lv.extra = ExtraLength(3)
    /\ read_ptr(memory, Pointer(1, PointerSize)).ptr = lv.ptr
    /\ UsizeValue(read_usize(memory, Pointer(1, 2 * PointerSize)).n) = 3
    /\ memory.allocs[1].bytes[1] = Undef

\* C27: the reference to a place whose metadata is None, a length or a
\* vtable, dereferenced at the matching pointer type, is a place with the
\* address and the metadata of that place.
C27_RefThenDeref ==
    lvres.op = "deref" => (lvres.r.res = "Ok" /\ lvres.r.lvalue = lv)

\* The reference to a place with a vtable was written and dereferenced at
\* the type of a pointer to a trait object, and the reference to a place of
\* two elements at the type of a pointer to a slice.
C27_Witness ==
    /\ lvres.op = "deref"
    /\ lvres.r.res = "Ok"
    /\ \/ lv.extra.tag = "Vtable" /\ lvres.ty = TyRef("trait")
       \/ lv.extra = ExtraLength(2) /\ lvres.ty = TyRef("slice")

----------------------------------------------------------------------------
\* C28: a sub-slice (from, to) of a sequence of n elements succeeds only
\* when from + to <= n, and is then the place at base + from * elem_size
\* with the length n - from - to; when from + to > n, to > n included, it
\* aborts.
C28_SubsliceWithinBase ==
    (lvres.op = "Subslice" /\ elem_ty_and_len(lv, lvres.ty).res = "Ok")
       => LET el == elem_ty_and_len(lv, lvres.ty)
          IN  IF lvres.from + lvres.to <= el.len
              THEN /\ lvres.r.res = "Ok"
                   /\ lvres.r.lvalue =
                         Lvalue(offset(lv.ptr, lvres.from * elem_size(el.elem)),
                                ExtraLength(el.len - lvres.from - lvres.to))
              ELSE lvres.r.res = "panic"

----------------------------------------------------------------------------
\* Casts: CastKind::Misc of a fat pointer.

\* EvalContext::type_is_fat_ptr.
type_is_fat_ptr(ty) == ty.sty = "Ref" /\ ~type_is_sized(ty.pointee)

\* A cast that copies both words whatever the destination type.
eval_rvalue_Cast_Misc_wide(mem, src, src_ty, dest, dest_ty) ==
    LET d == to_ptr(dest)
    IN  IF d.res # "Ok" THEN [res |-> "panic", mem |-> mem]
        ELSE IF src.tag = "ByValPair"
             THEN LET w == write_primval_to(mem, d.ptr, src.a)
                  IN  IF w.res # "Ok" THEN w
                      ELSE write_primval_to(w.mem, offset(d.ptr, PointerSize), src.b)
        ELSE IF src.tag = "ByRef"
             THEN Copy(mem, src.ptr, d.ptr, PointerSize * 2, PointerSize)
        ELSE [res |-> "panic", mem |-> mem]

\* The arm Cast of eval_rvalue_into_lvalue for CastKind::Misc, from the
\* value that the operand was evaluated to, for a source type that is a
\* fat pointer; the casts of the other types are left to cast_primval and
\* are not examined.
eval_rvalue_Cast_Misc(mem, src, src_ty, dest, dest_ty) ==
    LET d == to_ptr(dest)
        ptr_size == PointerSize
    IN  IF d.res # "Ok" THEN [res |-> "panic", mem |-> mem]
        ELSE IF ~type_is_fat_ptr(src_ty) THEN [res |-> "ArmNotExamined", mem |-> mem]
        ELSE CASE src.tag = "ByValPair" /\ type_is_fat_ptr(dest_ty) ->
                     LET w == write_primval_to(mem, d.ptr, src.a)
                     IN  IF w.res # "Ok" THEN w
                         ELSE write_primval_to(w.mem, offset(d.ptr, ptr_size), src.b)
               [] src.tag = "ByValPair" /\ ~type_is_fat_ptr(dest_ty) ->
                     write_primval_to(mem, d.ptr, src.a)
               [] src.tag = "ByRef" /\ type_is_fat_ptr(dest_ty) ->
                     Copy(mem, src.ptr, d.ptr, ptr_size * 2, ptr_size)
               [] src.tag = "ByRef" /\ ~type_is_fat_ptr(dest_ty) ->
                     Copy(mem, src.ptr, d.ptr, ptr_size, ptr_size)
               [] OTHER -> [res |-> "panic", mem |-> mem]

\* The fat pointers: an address in allocation 2 with a length or with the
\* vtable of allocation 3.
FatPointers ==
    {ByValPair(PrimPtr(Pointer(2, o)), usize_primval(AsU64(n))) :
        o \in 0..1, n \in 0..MaxLen}
    \cup {ByValPair(PrimPtr(Pointer(2, o)), PrimPtr(Pointer(3, 0))) : o \in 0..1}

\* Allocation 1 is the destination, of two words; allocation 2 holds the
\* fat pointer stored, as write_value stores it; allocation 3 is a vtable,
\* of no bytes.
CastMemory(stored) ==
    LET d == Allocate(EmptyMemory, 2 * PointerSize, PointerSize)
        a == Allocate(d.mem, 2 * PointerSize, PointerSize)
        v == Allocate(a.mem, 0, PointerSize)
        w == write_primval_to(v.mem, a.ptr, stored.a)
    IN  write_primval_to(w.mem, offset(a.ptr, PointerSize), stored.b).mem

CastInit ==
    /\ stack = <<>>
    /\ \E stored \in FatPointers : memory = CastMemory(stored)
    /\ statics = <<>>
    /\ stack_limit = 1
    /\ step_limit = 0
    /\ pc = "values"
    /\ steps = 0
    /\ diags = <<>>
    /\ last = NoOp
    /\ entry_depth = <<>>
    /\ lv = Lvalue(Pointer(1, 0), ExtraNone)
    /\ lvres = NoLvRes

\* The types of the fat pointers that hold the value: of a pointer to a
\* trait object when the second word is a pointer, to a slice or to a str
\* when it is a length.
FatTypes(value) ==
    IF value.b.kind = "Ptr" THEN {TyRef("trait")} ELSE {TyRef("slice"), TyRef("str")}

\* A fat pointer, by value or stored in allocation 2, is cast to a fat
\* pointer of its kind or to a thin pointer.
CastMisc ==
    /\ last.op = "none"
    /\ \E by_ref \in BOOLEAN :
       \E pair \in FatPointers :
       \E src_ty \in FatTypes(pair) :
       \E dest_ty \in FatTypes(pair) \cup {TyRef("u8")} :
          LET src == IF by_ref THEN ByRef(Pointer(2, 0)) ELSE pair
              r   == eval_rvalue_Cast_Misc(memory, src, src_ty, lv, dest_ty)
          IN  /\ by_ref => read_value(memory, Pointer(2, 0), src_ty).value = pair
              /\ memory' = r.mem
              /\ last' = [op |-> "cast", res |-> r.res, src |-> src, pair |-> pair,
                          src_ty |-> src_ty, dest_ty |-> dest_ty]
    /\ UNCHANGED value_frame

CastNext == CastMisc

SpecCast == CastInit /\ [][CastNext]_vars

\* C25: a Misc cast of a fat pointer copies both words to the destination
\* when the destination type is a fat pointer, and the first word only
\* when it is thin, for a source of two words by value and for a source by
\* reference: the destination then reads as the pair, or as its address
\* with the second word of the destination untouched.
C25_MiscCastOfFatPointer ==
    [][last'.op = "cast"
       => /\ last'.res = "Ok"
          /\ read_value(memory', lv.ptr, last'.dest_ty).res = "Ok"
          /\ IF type_is_fat_ptr(last'.dest_ty)
             THEN read_value(memory', lv.ptr, last'.dest_ty).value = last'.pair
             ELSE /\ read_value(memory', lv.ptr, last'.dest_ty).value
                        = ByVal(last'.pair.a)
                  /\ BytesAt(memory', offset(lv.ptr, PointerSize), PointerSize)
                        = BytesAt(memory, offset(lv.ptr, PointerSize), PointerSize)
          /\ memory'.allocs[2] = memory.allocs[2]]_vars

\* A pointer to a slice of two elements, by reference, was cast to a thin
\* pointer: the destination holds the address and its second word is not
\* defined.
C25_Witness ==
    /\ last.op = "cast" /\ last.res = "Ok"
    /\ last.src.tag = "ByRef"
    /\ last.pair.b = usize_primval(AsU64(2))
    /\ last.dest_ty = TyRef("u8")
    /\ read_ptr(memory, lv.ptr).ptr = last.pair.a.p
    /\ memory.allocs[1].bytes[PointerSize + 1] = Undef

----------------------------------------------------------------------------
\* eval_main calls report: a step has returned an error, or step_limit
\* steps have asked to continue.
CallsReport ==
    /\ pc = "loop"
    /\ pc' \in {"reported", "panic"}
    /\ last'.res # "panic"

\* C26: whenever eval_main emits a diagnostic, for a failing step or for
\* the exhaustion of step_limit, the call stack holds a frame, so that
\* report finds the frame, the block and the statement; the run whose stack
\* empties on the last step that step_limit allows is included.
C26_DiagnosticHasAFrame ==
    [][CallsReport => (stack' # <<>> /\ pc' = "reported" /\ Len(diags') = 1)]_vars
====
